---------------------------- MODULE Spec2Model ----------------------------
(***************************************************************************)
(* A model of the Meteora LP bot: the retrying swap and position-creation  *)
(* calls (SwapManager.swapTokens, LiquidityPoolManager                      *)
(* .createPositionAndAddLiquidity), the zap-out with its quote selection   *)
(* (ZapOutManager), the rebalancing cycle (MeteoraBot                       *)
(* .executeAutomatedTrading) and the cron scheduling of that cycle.        *)
(***************************************************************************)
EXTENDS Integers, Sequences, FiniteSets, TLC

VARIABLES
    sw,      \* one call of SwapManager.swapTokens(config, maxRetries)
    lp,      \* one call of LiquidityPoolManager.createPositionAndAddLiquidity(maxRetries)
    zap,     \* one ZapOutManager and its executeZapOut call
    sel,     \* one application of ZapOutManager.selectBestQuote
    wallet,  \* the ledger's view of the wallet: SOL balance, positions per pool
    cyc,     \* one execution of MeteoraBot.executeAutomatedTrading
    clr,     \* one execution of MeteoraBot.handleClearAllCommand
    sched,   \* the cron job and the executions it and the commands start
    tok,     \* one TokenUtils: its decimals cache and the getTokenDecimals calls
    note,    \* the notifications of one cycle and what becomes of the process
    trend,   \* one call of getTrendingTokens or of getProfileTokenAddress
    fresh,   \* one call of a retry loop, one step per awaited request
    flight,  \* one cycle, one step per submission, settlement and delay
    agg      \* one call of getQuotes and selectBestQuote, one step per venue answer

vars == <<sw, lp, zap, sel, wallet, cyc, clr, sched, tok, note, trend, fresh, flight, agg>>
retryVars == <<sw, lp>>
zapVars == <<zap, sel>>
cycleVars == <<wallet, cyc, clr>>
utilVars == <<tok, note, trend, fresh, flight, agg>>

Min(a, b) == IF a <= b THEN a ELSE b

(***************************************************************************)
(* Bounds of the model.                                                    *)
(***************************************************************************)
\* the largest maxRetries argument a caller of the retry loops passes
MaxRetriesArg == 3

(***************************************************************************)
(* Program constants.                                                      *)
(***************************************************************************)
\* maxRetries: number = 3 (default argument of both retry loops)
DefaultMaxRetries == 3
\* (attempt - 1) * 50: slippage added per retry, in bps
SlippageStepBps == 50
\* (attempt - 1) * 10: accounts added per retry
MaxAccountsStep == 10
\* Math.min(..., 50): the ceiling of maxAccounts
MaxAccountsCap == 50

(***************************************************************************)
(* The parts of the state a specification leaves alone.                    *)
(***************************************************************************)
Pools == {"A", "B", "C"}

WalletNone == [balance |-> 0, held |-> [p \in Pools |-> 0]]

CycleIdle ==
    [pc |-> "idle", MAX_SOL_PER_TOKEN |-> 0,
     validTrending |-> <<>>, currentPool |-> {},
     poolRemove |-> <<>>, zapped |-> <<>>, solBalance |-> 0,
     tokensToAdd |-> <<>>, availableSol |-> 0, solPerToken |-> 0,
     added |-> <<>>, total_position |-> 0, outcome |-> ""]

ClearIdle ==
    [pc |-> "idle", positions |-> <<>>, results |-> <<>>, cleared |-> 0,
     outcome |-> ""]

SchedIdle == [jobs |-> 0, started |-> FALSE, execs |-> <<>>]

\* the notifier before its first message
NoteIdle ==
    [pc |-> "idle", performed |-> <<>>, log |-> <<>>, unhandled |-> 0]

\* the profile lookup before its call
TrendIdle ==
    [pc |-> "idle", quoteAddresses |-> <<>>, chunks |-> <<>>, requests |-> <<>>,
     batches |-> <<>>, arrived |-> <<>>, profiles |-> <<>>]

\* a retry loop before its call.  clock counts the answers received so far;
\* quote, poolState, blockhash and keypair hold the clock value at which the
\* value now in the variable was obtained (0: none)
FreshIdle ==
    [pc |-> "idle", op |-> "", maxRetries |-> 0, attempt |-> 0, clock |-> 0,
     quote |-> 0, poolState |-> 0, blockhash |-> 0, keypair |-> 0,
     failedAt |-> 0, submissions |-> <<>>]

\* a cycle before it starts
FlightIdle ==
    [pc |-> "idle", removeLeft |-> 0, addLeft |-> 0, attempt |-> 0,
     inFlight |-> {}, submitted |-> 0, swapConfirmed |-> FALSE, log |-> <<>>]

\* a cache key: `${tokenMint}_${tokenProgram}`
Keys == [mint : {"M"}, program : {"Token", "Token2022"}]

\* Map.get of an absent key
Undefined == -1

\* private cache: Map<string, number> = new Map()
TokIdle == [cache |-> [k \in Keys |-> Undefined], calls |-> <<>>, clears |-> 0]

(***************************************************************************)
(* Numbers as JavaScript sees them: a finite value or NaN.                 *)
(***************************************************************************)
Num(v) == [kind |-> "num", v |-> v]
NaN == [kind |-> "nan", v |-> 0]
isFinite(x) == x.kind = "num"

(***************************************************************************)
(* SwapManager.swapTokens(config, maxRetries)                              *)
(***************************************************************************)
\* What one execution of the attempt body can end in.  A confirmation that
\* throws (a timeout) leaves the fate of the transaction already sent open:
\* it may still take effect on the ledger, or not.
SwapOutcomes ==
    { [err |-> "Jupiter quote error", sent |-> FALSE, landed |-> FALSE],
      [err |-> "confirm timeout", sent |-> TRUE, landed |-> FALSE],
      [err |-> "confirm timeout", sent |-> TRUE, landed |-> TRUE],
      [err |-> "", sent |-> TRUE, landed |-> TRUE] }

IsSuccess(o) == o.err = ""

\* const retrySlippage = config.slippage + (attempt - 1) * 50
TightenedSlippage(slippage, attempt) == slippage - (attempt - 1) * SlippageStepBps
RetrySlippage(slippage, attempt) == slippage + (attempt - 1) * SlippageStepBps

\* const retryMaxAccounts = Math.min(config.maxAccounts + (attempt - 1) * 10, 50)
RetryMaxAccounts(maxAccounts, attempt) ==
    Min(maxAccounts + (attempt - 1) * MaxAccountsStep, MaxAccountsCap)

\* for (let attempt = 1; attempt <= maxRetries; attempt++)
SwapLoopShort(attempt, maxRetries) == attempt < maxRetries
swapLoopCondition(attempt, maxRetries) == attempt <= maxRetries

\* where the attempt body leaves the loop: the return inside try, or the catch
\* block (delay when attempt < maxRetries, else on to the loop's exit)
SwapNoReturn(o, attempt, maxRetries) ==
    IF IsSuccess(o) THEN "exit"
    ELSE IF attempt < maxRetries THEN "delay" ELSE "exit"
SwapDelaysAlways(o, attempt, maxRetries) ==
    IF IsSuccess(o) THEN "returned" ELSE "delay"
swapAfterAttempt(o, attempt, maxRetries) ==
    IF IsSuccess(o) THEN "returned"
    ELSE IF attempt < maxRetries THEN "delay" ELSE "exit"

\* swapTokens(config) without retries: getQuote(..., config.slippage,
\* config.maxAccounts)
swapTokensOnce(config) ==
    [slippage |-> config.slippage, maxAccounts |-> config.maxAccounts]

SwapIdle ==
    [pc |-> "idle", maxRetries |-> 0, attempt |-> 0, log |-> <<>>,
     amount |-> 0, slippage |-> 0, maxAccounts |-> 0, used |-> <<>>,
     lastError |-> "null", delays |-> 0, landed |-> 0,
     result |-> 0, error |-> [attempts |-> 0, last |-> "null"]]

\* The state of a call on entry: lastError = null, attempt = 1, and the loop
\* condition decides between the first attempt and the throw after the loop.
swapEnter(config, maxRetries) ==
    [SwapIdle EXCEPT
        !.pc = IF swapLoopCondition(1, maxRetries) THEN "attempt" ELSE "threw",
        !.maxRetries = maxRetries, !.attempt = 1,
        !.amount = config.amount, !.slippage = config.slippage,
        !.maxAccounts = config.maxAccounts,
        !.error = IF swapLoopCondition(1, maxRetries)
                  THEN [attempts |-> 0, last |-> "null"]
                  ELSE [attempts |-> maxRetries, last |-> "undefined"]]

\* One execution of the attempt body (try block and catch block up to the delay).
swapBody(s, o) ==
    LET next == swapAfterAttempt(o, s.attempt, s.maxRetries)
        ran == [s EXCEPT
                  !.log = Append(@, o),
                  !.used = Append(@, [slippage |-> RetrySlippage(s.slippage, s.attempt),
                                      maxAccounts |-> RetryMaxAccounts(s.maxAccounts, s.attempt)]),
                  !.landed = @ + (IF o.landed THEN 1 ELSE 0),
                  !.lastError = IF IsSuccess(o) THEN @ ELSE o.err]
    IN  CASE next = "returned" ->
               [ran EXCEPT !.pc = "returned", !.result = s.attempt]
          [] next = "delay" ->
               [ran EXCEPT !.pc = "delay"]
          [] OTHER ->
               \* attempt++ and the loop condition again
               IF swapLoopCondition(s.attempt + 1, s.maxRetries)
               THEN [ran EXCEPT !.pc = "attempt", !.attempt = @ + 1]
               ELSE [ran EXCEPT !.pc = "threw", !.attempt = @ + 1,
                                !.error = [attempts |-> s.maxRetries,
                                           last |-> ran.lastError]]

\* await new Promise(resolve => setTimeout(resolve, 2000)); attempt++
swapDelayed(s) ==
    IF swapLoopCondition(s.attempt + 1, s.maxRetries)
    THEN [s EXCEPT !.pc = "attempt", !.attempt = @ + 1, !.delays = @ + 1]
    ELSE [s EXCEPT !.pc = "threw", !.attempt = @ + 1, !.delays = @ + 1,
                   !.error = [attempts |-> s.maxRetries, last |-> s.lastError]]

swapTokens_Attempt ==
    /\ sw.pc = "attempt"
    /\ \E o \in SwapOutcomes : sw' = swapBody(sw, o)
    /\ UNCHANGED <<lp, zapVars, cycleVars, sched, utilVars>>

swapTokens_Delay ==
    /\ sw.pc = "delay"
    /\ sw' = swapDelayed(sw)
    /\ UNCHANGED <<lp, zapVars, cycleVars, sched, utilVars>>

(***************************************************************************)
(* LiquidityPoolManager.createPositionAndAddLiquidity(maxRetries)          *)
(***************************************************************************)
\* Errors the spec calls fatal: invalid configuration, non-finite or
\* non-positive amounts, missing token A info.
FatalErrors ==
    {"Token A info not found", "Invalid tokenAAmount", "Invalid tokenBAmount"}

IsFatal(err) == err \in FatalErrors

\* if (!isFinite(tokenAAmount) || tokenAAmount <= 0) throw ...
\* if (!isFinite(tokenBAmount) || tokenBAmount <= 0) throw ...
lpValidate(tokenAAmount, tokenBAmount) ==
    IF ~isFinite(tokenAAmount) \/ tokenAAmount.v <= 0 THEN "Invalid tokenAAmount"
    ELSE IF ~isFinite(tokenBAmount) \/ tokenBAmount.v <= 0 THEN "Invalid tokenBAmount"
    ELSE ""

\* What one execution of the attempt body can end in, in the order of the
\* code: getPoolAndTokenInfo (an RPC failure, or no token A info), the
\* validation of the configured amounts, then building, sending and
\* confirming the transaction (sendAndConfirmTransaction may throw after the
\* transaction was sent, which may still take effect).
LpOutcomes(tokenAAmount, tokenBAmount) ==
    { [err |-> "rpc error", sent |-> FALSE, landed |-> FALSE],
      [err |-> "Token A info not found", sent |-> FALSE, landed |-> FALSE] }
    \cup
    IF lpValidate(tokenAAmount, tokenBAmount) # ""
    THEN { [err |-> lpValidate(tokenAAmount, tokenBAmount),
            sent |-> FALSE, landed |-> FALSE] }
    ELSE { [err |-> "confirm timeout", sent |-> TRUE, landed |-> FALSE],
           [err |-> "confirm timeout", sent |-> TRUE, landed |-> TRUE],
           [err |-> "", sent |-> TRUE, landed |-> TRUE] }

\* createPositionTransaction: const slippageBuffer = new Decimal(1.05), in
\* percent
slippageBuffer == 105

\* const amountReduction = new Decimal(1 - (attempt - 1) * 0.01), in percent
amountReduction(attempt) == 100 - (attempt - 1) * 1

\* baseSlippageBuffer.mul(retrySlippageBuffer) = 1.05 * (1 + (attempt - 1) * 0.02),
\* in units of 1/10000
totalSlippageBuffer(attempt) == 105 * (100 + (attempt - 1) * 2)

\* for (let attempt = 1; attempt <= maxRetries; attempt++)
LpLoopShort(attempt, maxRetries) == attempt < maxRetries
lpLoopCondition(attempt, maxRetries) == attempt <= maxRetries

\* where the attempt body leaves the loop: the return inside try, or the catch
\* block, which treats every error alike
LpNoReturn(o, attempt, maxRetries) ==
    IF IsSuccess(o) THEN "exit"
    ELSE IF attempt < maxRetries THEN "delay" ELSE "exit"
lpAfterAttempt(o, attempt, maxRetries) ==
    IF IsSuccess(o) THEN "returned"
    ELSE IF attempt < maxRetries THEN "delay" ELSE "exit"

LpIdle ==
    [pc |-> "idle", maxRetries |-> 0, attempt |-> 0, log |-> <<>>,
     tokenAAmount |-> Num(0), tokenBAmount |-> Num(0), used |-> <<>>,
     lastError |-> "null", delays |-> 0, landed |-> 0,
     result |-> 0, error |-> [attempts |-> 0, last |-> "null"]]

lpEnter(config, maxRetries) ==
    [LpIdle EXCEPT
        !.pc = IF lpLoopCondition(1, maxRetries) THEN "attempt" ELSE "threw",
        !.maxRetries = maxRetries, !.attempt = 1,
        !.tokenAAmount = config.tokenAAmount,
        !.tokenBAmount = config.tokenBAmount,
        !.error = IF lpLoopCondition(1, maxRetries)
                  THEN [attempts |-> 0, last |-> "null"]
                  ELSE [attempts |-> maxRetries, last |-> "undefined"]]

\* One execution of the attempt body.  Each attempt generates its own
\* position NFT (Keypair.generate()), so every transaction that takes effect
\* creates one more position.
lpBody(s, o) ==
    LET next == lpAfterAttempt(o, s.attempt, s.maxRetries)
        built == lpValidate(s.tokenAAmount, s.tokenBAmount) = ""
                   /\ o.err \notin {"rpc error", "Token A info not found"}
        ran == [s EXCEPT
                  !.log = Append(@, o),
                  !.used = IF built
                           THEN Append(@, [factor |-> amountReduction(s.attempt),
                                           buffer |-> totalSlippageBuffer(s.attempt)])
                           ELSE @,
                  !.landed = @ + (IF o.landed THEN 1 ELSE 0),
                  !.lastError = IF IsSuccess(o) THEN @ ELSE o.err]
    IN  CASE next = "returned" ->
               [ran EXCEPT !.pc = "returned", !.result = s.attempt]
          [] next = "delay" ->
               [ran EXCEPT !.pc = "delay"]
          [] OTHER ->
               IF lpLoopCondition(s.attempt + 1, s.maxRetries)
               THEN [ran EXCEPT !.pc = "attempt", !.attempt = @ + 1]
               ELSE [ran EXCEPT !.pc = "threw", !.attempt = @ + 1,
                                !.error = [attempts |-> s.maxRetries,
                                           last |-> ran.lastError]]

\* await new Promise(resolve => setTimeout(resolve, 2000)); attempt++
lpDelayed(s) ==
    IF lpLoopCondition(s.attempt + 1, s.maxRetries)
    THEN [s EXCEPT !.pc = "attempt", !.attempt = @ + 1, !.delays = @ + 1]
    ELSE [s EXCEPT !.pc = "threw", !.attempt = @ + 1, !.delays = @ + 1,
                   !.error = [attempts |-> s.maxRetries, last |-> s.lastError]]

createPositionAndAddLiquidity_Attempt ==
    /\ lp.pc = "attempt"
    /\ \E o \in LpOutcomes(lp.tokenAAmount, lp.tokenBAmount) : lp' = lpBody(lp, o)
    /\ UNCHANGED <<sw, zapVars, cycleVars, sched, utilVars>>

createPositionAndAddLiquidity_Delay ==
    /\ lp.pc = "delay"
    /\ lp' = lpDelayed(lp)
    /\ UNCHANGED <<sw, zapVars, cycleVars, sched, utilVars>>

(***************************************************************************)
(* ZapOutManager: quotes and their selection                               *)
(***************************************************************************)
\* QuoteResult | null.  error = "" stands for an absent error field.
Null == [protocol |-> "null", amount |-> 0, error |-> ""]
Quote(protocol, amount) == [protocol |-> protocol, amount |-> amount, error |-> ""]
QuoteError(protocol, message) == [protocol |-> protocol, amount |-> 0, error |-> message]

NoValidQuotes == "No valid quotes obtained from any protocol"

\* quote !== null && !quote.error && quote.amount.gt(new BN(0))
AcceptsZero(quote) == quote # Null /\ quote.error = "" /\ quote.amount >= 0
isValidQuote(quote) == quote # Null /\ quote.error = "" /\ quote.amount > 0

\* current.amount.gt(best.amount) ? current : best
PickLater(best, current) == IF current.amount >= best.amount THEN current ELSE best
pickBetter(best, current) == IF current.amount > best.amount THEN current ELSE best

RECURSIVE reduce(_, _, _)
reduce(quotes, i, best) ==
    IF i > Len(quotes) THEN best
    ELSE reduce(quotes, i + 1, pickBetter(best, quotes[i]))

\* selectBestQuote(quotes): Object.values(quotes) lists nativeQuote before
\* jupiterQuote.  A throw is returned as a result with protocol "throw".
selectBestQuote(nativeQuote, jupiterQuote) ==
    LET validQuotes == SelectSeq(<<nativeQuote, jupiterQuote>>, isValidQuote)
    IN  IF Len(validQuotes) = 0
        THEN [protocol |-> "throw", amount |-> 0, error |-> NoValidQuotes]
        ELSE LET bestQuote == reduce(validQuotes, 2, validQuotes[1])
             IN  [protocol |-> bestQuote.protocol, amount |-> bestQuote.amount,
                  error |-> ""]

SelIdle ==
    [applied |-> FALSE, nativeQuote |-> Null, jupiterQuote |-> Null,
     out |-> [protocol |-> "", amount |-> 0, error |-> ""]]

\* the largest output amount a venue quotes
MaxQuoteAmount == 2

\* What a venue answers to a quote request: an output amount, or a failure.
VenueResponses == [ok : {TRUE}, amount : 0..MaxQuoteAmount] \cup [ok : {FALSE}, amount : {0}]

venueQuote(protocol, resp) ==
    IF resp.ok THEN Quote(protocol, resp.amount)
    ELSE QuoteError(protocol, "quote failed")

\* getQuotes(inputAmount): the native venue is asked only when its SDK object
\* is set (else the entry is null); Jupiter is always asked.  Each venue's
\* promise has its own catch, so Promise.all gets no rejection.
AbortsSiblings(poolType, sdk, nativeResp, jupiterResp) ==
    LET failed == (sdk /\ ~nativeResp.ok) \/ ~jupiterResp.ok
    IN  [nativeQuote |-> IF ~sdk THEN Null
                         ELSE IF failed THEN QuoteError(poolType, "quote failed")
                         ELSE venueQuote(poolType, nativeResp),
         jupiterQuote |-> IF failed THEN QuoteError("jupiter", "quote failed")
                          ELSE venueQuote("jupiter", jupiterResp)]
getQuotes(poolType, sdk, nativeResp, jupiterResp) ==
    [nativeQuote |-> IF sdk THEN venueQuote(poolType, nativeResp) ELSE Null,
     jupiterQuote |-> venueQuote("jupiter", jupiterResp)]

(***************************************************************************)
(* ZapOutManager: constructor and executeZapOut                            *)
(***************************************************************************)
\* the most positions the wallet holds in one pool
MaxHeld == 2

PoolTypes == {"dammV2", "dlmm"}

\* a venue that was sent no request
NotAsked == [ok |-> FALSE, amount |-> -1]

\* the venues getQuotes asks, and a call of it before it is made
Venues == {"native", "jupiter"}

AggIdle ==
    [pc |-> "idle", poolType |-> "dammV2", sdk |-> FALSE, pending |-> {},
     responses |-> [v \in Venues |-> NotAsked], arrived |-> <<>>,
     best |-> [protocol |-> "", amount |-> 0, error |-> ""]]

ZapIdle ==
    [pc |-> "idle", poolType |-> "dammV2", sdk |-> FALSE, held |-> 0,
     responses |-> [native |-> NotAsked, jupiter |-> NotAsked],
     nativeQuote |-> Null, jupiterQuote |-> Null,
     best |-> [protocol |-> "", amount |-> 0, error |-> ""],
     submitted |-> 0, landed |-> 0, error |-> "", decimals |-> {}]

\* constructor(config): initializePoolSDK() runs up to its first await, so
\* cpAmm is set for DAMM_V2 when the constructor returns and dlmm is not.
zapConstruct(poolType, held) ==
    [ZapIdle EXCEPT !.pc = "constructed", !.poolType = poolType,
                    !.sdk = (poolType = "dammV2"), !.held = held]

ZapOutManager_new ==
    /\ zap.pc = "idle" /\ sel = SelIdle
    /\ \E poolType \in PoolTypes, held \in 0..MaxHeld :
          zap' = zapConstruct(poolType, held)
    /\ UNCHANGED <<sel, retryVars, cycleVars, sched, utilVars>>

\* this.dlmm = await DLMM.create(...)
initializePoolSDK_Resolve ==
    /\ zap.pc # "idle" /\ zap.poolType = "dlmm" /\ ~zap.sdk
    /\ zap' = [zap EXCEPT !.sdk = TRUE]
    /\ UNCHANGED <<sel, retryVars, cycleVars, sched, utilVars>>

\* A removal that sends its own transaction before the quotes are asked.
RemovesOnItsOwn(z, rpcOk) ==
    IF ~z.sdk
    THEN [z EXCEPT !.pc = "threw",
                   !.error = IF z.poolType = "dammV2" THEN "CpAmm not initialized"
                             ELSE "DLMM not initialized"]
    ELSE IF ~rpcOk THEN [z EXCEPT !.pc = "threw", !.error = "rpc error"]
    ELSE IF z.held = 0
    THEN [z EXCEPT !.pc = "threw", !.error = "No positions found for this user"]
    ELSE [z EXCEPT !.pc = "quotes", !.submitted = @ + 1,
                   !.held = IF z.poolType = "dammV2" THEN @ - 1 ELSE 0]

\* A removal that does not look at the positions it found.
QuotesWithoutPositions(z, rpcOk) ==
    IF ~z.sdk
    THEN [z EXCEPT !.pc = "threw",
                   !.error = IF z.poolType = "dammV2" THEN "CpAmm not initialized"
                             ELSE "DLMM not initialized"]
    ELSE IF ~rpcOk THEN [z EXCEPT !.pc = "threw", !.error = "rpc error"]
    ELSE [z EXCEPT !.pc = "quotes"]

\* removeDammV2Liquidity() / removeDlmmLiquidity(): only builds the
\* remove-liquidity transaction.
zapRemoveLiquidity(z, rpcOk) ==
    IF ~z.sdk
    THEN [z EXCEPT !.pc = "threw",
                   !.error = IF z.poolType = "dammV2" THEN "CpAmm not initialized"
                             ELSE "DLMM not initialized"]
    ELSE IF ~rpcOk THEN [z EXCEPT !.pc = "threw", !.error = "rpc error"]
    ELSE IF z.held = 0
    THEN [z EXCEPT !.pc = "threw", !.error = "No positions found for this user"]
    ELSE [z EXCEPT !.pc = "quotes"]

executeZapOut_RemoveLiquidity ==
    /\ zap.pc = "constructed"
    /\ \E rpcOk \in BOOLEAN : zap' = zapRemoveLiquidity(zap, rpcOk)
    /\ UNCHANGED <<sel, retryVars, cycleVars, sched, utilVars>>

\* the keys of the manager's TokenUtils cache after getQuotes: the DAMM v2
\* quote calls getPoolTokenDecimals(), whose getTokenDecimals calls store the
\* decimals of token A and token B (a DAMM v2 quote that failed is taken to
\* have failed at its first request, before the lookup)
decimalsAfterQuotes(poolType, sdk, nativeResp, decimals) ==
    IF poolType = "dammV2" /\ sdk /\ nativeResp.ok
    THEN decimals \cup {"tokenAMint", "tokenBMint"}
    ELSE decimals

\* const quotes = await this.getQuotes(inputAmount)
zapQuoted(z, nativeResp, jupiterResp) ==
    LET quotes == getQuotes(z.poolType, z.sdk, nativeResp, jupiterResp)
    IN  [z EXCEPT !.pc = "select",
                  !.responses = [native |-> IF z.sdk THEN nativeResp ELSE NotAsked,
                                 jupiter |-> jupiterResp],
                  !.nativeQuote = quotes.nativeQuote,
                  !.jupiterQuote = quotes.jupiterQuote,
                  !.decimals = decimalsAfterQuotes(z.poolType, z.sdk, nativeResp, @)]

executeZapOut_GetQuotes ==
    /\ zap.pc = "quotes"
    /\ \E nativeResp \in VenueResponses, jupiterResp \in VenueResponses :
          zap' = zapQuoted(zap, nativeResp, jupiterResp)
    /\ UNCHANGED <<sel, retryVars, cycleVars, sched, utilVars>>

\* const [nativeQuote, jupiterQuote] = await Promise.all(promises) with a
\* venue whose request never settles: no timer races the request, so the
\* await is not resumed
executeZapOut_AwaitQuotes ==
    /\ zap.pc = "quotes"
    /\ zap' = [zap EXCEPT !.pc = "awaitingQuotes"]
    /\ UNCHANGED <<sel, retryVars, cycleVars, sched, utilVars>>

\* const bestQuote = this.selectBestQuote(quotes)
zapSelect(z) ==
    LET bestQuote == selectBestQuote(z.nativeQuote, z.jupiterQuote)
    IN  IF bestQuote.protocol = "throw"
        THEN [z EXCEPT !.pc = "threw", !.error = bestQuote.error]
        ELSE [z EXCEPT !.pc = "build", !.best = bestQuote]

executeZapOut_SelectBestQuote ==
    /\ zap.pc = "select"
    /\ zap' = zapSelect(zap)
    /\ UNCHANGED <<sel, retryVars, cycleVars, sched, utilVars>>

\* const zapOutTx = await this.createZapOutTransaction(...)
zapBuilt(z, ok) ==
    IF ok THEN [z EXCEPT !.pc = "send"]
    ELSE [z EXCEPT !.pc = "threw", !.error = "build failed"]

executeZapOut_CreateZapOutTransaction ==
    /\ zap.pc = "build"
    /\ \E ok \in BOOLEAN : zap' = zapBuilt(zap, ok)
    /\ UNCHANGED <<sel, retryVars, cycleVars, sched, utilVars>>

\* What sendAndConfirmTransaction can end in.
SendOutcomes ==
    { [err |-> "send failed", sent |-> FALSE, landed |-> FALSE],
      [err |-> "confirm timeout", sent |-> TRUE, landed |-> FALSE],
      [err |-> "confirm timeout", sent |-> TRUE, landed |-> TRUE],
      [err |-> "", sent |-> TRUE, landed |-> TRUE] }

\* The transaction closes positions[0] of a DAMM v2 pool
\* (removeAllLiquidityAndClosePosition) and every position of a DLMM pair.
heldAfterZapOut(poolType, held) ==
    IF poolType = "dammV2" THEN held - 1 ELSE 0

\* getLatestBlockhash and sendAndConfirmTransaction(finalTransaction)
zapSend(z, o) ==
    [z EXCEPT !.pc = IF IsSuccess(o) THEN "returned" ELSE "threw",
              !.error = o.err,
              !.submitted = @ + (IF o.sent THEN 1 ELSE 0),
              !.landed = @ + (IF o.landed THEN 1 ELSE 0),
              !.held = IF o.landed THEN heldAfterZapOut(z.poolType, @) ELSE @]

executeZapOut_Send ==
    /\ zap.pc = "send"
    /\ \E o \in SendOutcomes : zap' = zapSend(zap, o)
    /\ UNCHANGED <<sel, retryVars, cycleVars, sched, utilVars>>

(***************************************************************************)
(* selectBestQuote applied to any pair of entries of its parameter type    *)
(***************************************************************************)
QuoteInputs(protocol) ==
    {Null} \cup [protocol : {protocol}, amount : (-1)..MaxQuoteAmount,
                 error : {"", "quote failed"}]

selectBestQuote_Apply ==
    /\ zap.pc = "idle" /\ sel = SelIdle
    /\ \E nativeQuote \in QuoteInputs("dammV2"), jupiterQuote \in QuoteInputs("jupiter") :
          sel' = [applied |-> TRUE, nativeQuote |-> nativeQuote,
                  jupiterQuote |-> jupiterQuote,
                  out |-> selectBestQuote(nativeQuote, jupiterQuote)]
    /\ UNCHANGED <<zap, retryVars, cycleVars, sched, utilVars>>

InitZap ==
    /\ sw = SwapIdle /\ lp = LpIdle /\ zap = ZapIdle /\ sel = SelIdle
    /\ wallet = WalletNone /\ cyc = CycleIdle /\ clr = ClearIdle
    /\ sched = SchedIdle /\ tok = TokIdle /\ note = NoteIdle
    /\ trend = TrendIdle
    /\ fresh = FreshIdle /\ flight = FlightIdle /\ agg = AggIdle

NextZap ==
    \/ ZapOutManager_new
    \/ initializePoolSDK_Resolve
    \/ executeZapOut_RemoveLiquidity
    \/ executeZapOut_GetQuotes
    \/ executeZapOut_AwaitQuotes
    \/ executeZapOut_SelectBestQuote
    \/ executeZapOut_CreateZapOutTransaction
    \/ executeZapOut_Send
    \/ selectBestQuote_Apply

SpecZap == InitZap /\ [][NextZap]_vars

(***************************************************************************)
(* The retry loops called on their own, as the scripts call them: one call *)
(* of either, with any maxRetries and any configuration.                   *)
(***************************************************************************)
SwapConfigs ==
    [amount : {1}, slippage : {50}, maxAccounts : {30, 45, 60}]

ConfigAmounts == {NaN, Num(0), Num(1)}

PoolConfigs ==
    [tokenAAmount : ConfigAmounts, tokenBAmount : ConfigAmounts]

swapTokens_Call ==
    /\ sw.pc = "idle" /\ lp.pc = "idle"
    /\ \E config \in SwapConfigs, maxRetries \in 0..MaxRetriesArg :
          sw' = swapEnter(config, maxRetries)
    /\ UNCHANGED <<lp, zapVars, cycleVars, sched, utilVars>>

createPositionAndAddLiquidity_Call ==
    /\ sw.pc = "idle" /\ lp.pc = "idle"
    /\ \E config \in PoolConfigs, maxRetries \in 0..MaxRetriesArg :
          lp' = lpEnter(config, maxRetries)
    /\ UNCHANGED <<sw, zapVars, cycleVars, sched, utilVars>>

InitRetry ==
    /\ sw = SwapIdle /\ lp = LpIdle /\ zap = ZapIdle /\ sel = SelIdle
    /\ wallet = WalletNone /\ cyc = CycleIdle /\ clr = ClearIdle
    /\ sched = SchedIdle /\ tok = TokIdle /\ note = NoteIdle
    /\ trend = TrendIdle
    /\ fresh = FreshIdle /\ flight = FlightIdle /\ agg = AggIdle

NextRetry ==
    \/ swapTokens_Call
    \/ swapTokens_Attempt
    \/ swapTokens_Delay
    \/ createPositionAndAddLiquidity_Call
    \/ createPositionAndAddLiquidity_Attempt
    \/ createPositionAndAddLiquidity_Delay

SpecRetry == InitRetry /\ [][NextRetry]_vars

(***************************************************************************)
(* MeteoraBot.executeAutomatedTrading                                      *)
(*                                                                         *)
(* SOL amounts are whole numbers of units, 40000 units to the SOL (25000   *)
(* lamports to the unit), so that 0.989, 0.45 and the division by the      *)
(* number of candidates are exact on the balances of the model.            *)
(***************************************************************************)
UnitsPerSol == 40000
LamportsPerUnit == 25000

\* parseFloat(process.env.MAX_SOL_PER_TOKEN || "0.1"): the default, or a
\* configured "0"
MaxSolPerTokenEnv == {UnitsPerSol \div 10, 0}

\* parseInt(process.env.MAX_TRENDING_COUNT || "5"), here set to 2
MAX_TRENDING_COUNT == 2

\* the longest list of profiles the discovery returns
MaxTrendingLen == 3

\* what a landed zap-out pays into the wallet
ZapProceeds == UnitsPerSol

PoolOrder == <<"A", "B", "C">>

Profiles == [pairAddress : Pools, volume : {0, 2}, liquidity : {2, 3}]

TrendingLists == UNION {[1..n -> Profiles] : n \in 0..MaxTrendingLen}

\* Number(token.volume.h24) / Number(token.liquidity.usd) >= 1
\* (x / 0 is Infinity for x > 0 and NaN for x = 0)
isValidToken(token) ==
    IF token.liquidity = 0 THEN token.volume > 0
    ELSE token.volume >= token.liquidity

slice(list, n) == SubSeq(list, 1, Min(Len(list), n))

\* trending.filter(token => this.isValidToken(token)).slice(0, MAX_TRENDING_COUNT)
validTrendingOf(trending) ==
    slice(SelectSeq(trending, isValidToken), MAX_TRENDING_COUNT)

\* the pools of getAllPoolPostions(), collected into the Set currentPool
currentPoolOf(w) == {p \in Pools : w.held[p] > 0}

\* new Set(validTrending.map(token => token.pairAddress))
trendingTokensOf(validTrending) ==
    {validTrending[i].pairAddress : i \in 1..Len(validTrending)}

\* Array.from(currentPool).filter(token => !trendingTokens.has(token))
RemoveEverything(currentPool, validTrending) ==
    LET keep(p) == p \in currentPool
    IN  SelectSeq(PoolOrder, keep)
poolRemoveOf(currentPool, validTrending) ==
    LET keep(p) == p \in currentPool /\ p \notin trendingTokensOf(validTrending)
    IN  SelectSeq(PoolOrder, keep)

\* validTrending.filter(token => !currentPool.has(token.pairAddress))
tokensToAddOf(currentPool, validTrending) ==
    LET keep(token) == token.pairAddress \notin currentPool
    IN  SelectSeq(validTrending, keep)

\* const availableSol = Number(solBalance.formatted) * 0.989
availableSolOf(solBalance) == (solBalance * 989) \div 1000

\* Math.min(availableSol / tokensToAdd.length, MAX_SOL_PER_TOKEN)
Uncapped(availableSol, count, MAX_SOL_PER_TOKEN) == availableSol \div count
solPerTokenOf(availableSol, count, MAX_SOL_PER_TOKEN) ==
    Min(availableSol \div count, MAX_SOL_PER_TOKEN)

(***************************************************************************)
(* zapOutPosition(pool): fetchPoolState, new ZapOutManager (DAMM v2) and   *)
(* executeZapOut, from the first call to the return or the throw.          *)
(***************************************************************************)
ZapInputs ==
    [fetchOk : BOOLEAN, rpcOk : BOOLEAN, nativeResp : VenueResponses,
     jupiterResp : VenueResponses, buildOk : BOOLEAN, send : SendOutcomes]

zapRun(held, in) ==
    LET z1 == zapRemoveLiquidity(zapConstruct("dammV2", held), in.rpcOk)
        z3 == zapSelect(zapQuoted(z1, in.nativeResp, in.jupiterResp))
        z4 == zapBuilt(z3, in.buildOk)
    IN  IF z1.pc = "threw" THEN z1
        ELSE IF z3.pc = "threw" THEN z3
        ELSE IF z4.pc = "threw" THEN z4
        ELSE zapSend(z4, in.send)

zapOutPosition(w, pool, in) ==
    IF ~in.fetchOk THEN [wallet |-> w, ok |-> FALSE, submitted |-> 0]
    ELSE LET z == zapRun(w.held[pool], in)
         IN  [wallet |-> [w EXCEPT !.held[pool] = z.held,
                                   !.balance = @ + z.landed * ZapProceeds],
              ok |-> z.pc = "returned", submitted |-> z.submitted]

(***************************************************************************)
(* createAutomatedPosition(token, maxSolAmount): the swap of 45% of the    *)
(* amount and the position created from the rest, each with its retry      *)
(* loop run to its return or throw.                                        *)
(***************************************************************************)
RECURSIVE SwapRuns(_)
SwapRuns(s) ==
    IF s.pc \in {"returned", "threw"} THEN {s}
    ELSE IF s.pc = "delay" THEN SwapRuns(swapDelayed(s))
    ELSE UNION {SwapRuns(swapBody(s, o)) : o \in SwapOutcomes}

RECURSIVE LpRuns(_)
LpRuns(s) ==
    IF s.pc \in {"returned", "threw"} THEN {s}
    ELSE IF s.pc = "delay" THEN LpRuns(lpDelayed(s))
    ELSE UNION {LpRuns(lpBody(s, o)) : o \in LpOutcomes(s.tokenAAmount, s.tokenBAmount)}

Summaries(runs) == {[ok |-> r.pc = "returned", landed |-> r.landed] : r \in runs}

\* if (maxSolAmount): 0 and NaN are falsy
truthy(n) == n # 0

\* usableBalance: the amount passed in, or Math.min(balance, 1)
usableBalanceOf(maxSolAmount, balance) ==
    IF truthy(maxSolAmount) THEN maxSolAmount ELSE Min(balance, UnitsPerSol)

\* Math.floor(usableBalance * 0.45 * 1e9), in units
swapAmountOf(usableBalance) == (usableBalance * 9) \div 20

\* tokenBAmount: Math.min(remainingSolAmount.toNumber(), 0.5), a number of SOL
tokenBAmountOf(usableBalance) ==
    Min(usableBalance - swapAmountOf(usableBalance), UnitsPerSol \div 2)

\* maxAmountTokenB = new BN(addLidTokenBAmount.floor().toString()): the
\* configured number (of SOL) is floored and used as a raw amount of
\* lamports; in units
maxAmountTokenBOf(tokenBAmount) ==
    (tokenBAmount \div UnitsPerSol) \div LamportsPerUnit

\* The results createAutomatedPosition can have on wallet w.
createAutomatedPosition(w, token, maxSolAmount) ==
    LET usable == usableBalanceOf(maxSolAmount, w.balance)
        amount == swapAmountOf(usable)
        config == [amount |-> amount, slippage |-> 50, maxAccounts |-> 30]
        swaps == {r \in Summaries(SwapRuns(swapEnter(config, DefaultMaxRetries))) :
                    r.landed * amount <= w.balance}
        pool == [tokenAAmount |-> Num(1), tokenBAmount |-> Num(tokenBAmountOf(usable))]
        lps == Summaries(LpRuns(lpEnter(pool, DefaultMaxRetries)))
        deposit == maxAmountTokenBOf(tokenBAmountOf(usable))
        failedRead == IF truthy(maxSolAmount) THEN {}
                      ELSE {[wallet |-> w, ok |-> FALSE, committed |-> 0]}
        failedSwap == {[wallet |-> [w EXCEPT !.balance = @ - r.landed * amount],
                        ok |-> FALSE, committed |-> r.landed * amount] :
                       r \in {x \in swaps : ~x.ok}}
        afterSwap == {[wallet |-> [w EXCEPT
                                     !.balance = @ - r.landed * amount - l.landed * deposit,
                                     !.held[token.pairAddress] = @ + l.landed],
                       ok |-> l.ok,
                       committed |-> r.landed * amount + l.landed * deposit] :
                      r \in {x \in swaps : x.ok}, l \in lps}
    IN  failedRead \cup failedSwap \cup afterSwap

(***************************************************************************)
(* The cycle, one step per awaited call of executeAutomatedTrading.        *)
(***************************************************************************)
\* A cycle that goes on to the positions with no valid token.
SnapshotsAnyway(c, validTrending, max) ==
    [c EXCEPT !.pc = "snapshot",
              !.MAX_SOL_PER_TOKEN = max,
              !.validTrending = validTrending]

\* if (validTrending.length === 0) { sendMessage(...); return; }
cycleDiscovered(c, validTrending, max) ==
    IF Len(validTrending) = 0
    THEN [c EXCEPT !.pc = "done", !.outcome = "no valid tokens"]
    ELSE [c EXCEPT !.pc = "snapshot",
                   !.MAX_SOL_PER_TOKEN = max,
                   !.validTrending = validTrending]

\* MAX_SOL_PER_TOKEN from the environment, getTrendingTokens(), the filter and
\* the slice; no valid token ends the cycle
executeAutomatedTrading_Discover ==
    /\ cyc.pc = "start"
    /\ \E trending \in TrendingLists, max \in MaxSolPerTokenEnv :
          cyc' = cycleDiscovered(cyc, validTrendingOf(trending), max)
    /\ UNCHANGED <<wallet, clr, retryVars, zapVars, sched, utilVars>>

\* catch (error) { this.sendMessage(`Automated trading error: ...`) }: the
\* outer catch ends the cycle
KeepsGoing(c) == [c EXCEPT !.pc = "balance", !.outcome = "error"]
cycleFailed(c) == [c EXCEPT !.pc = "done", !.outcome = "error"]

\* currentPool, poolRemove, and the remove loop entered when poolRemove has
\* an element
SkipsRemoval(c, w) ==
    [c EXCEPT !.pc = "balance",
              !.currentPool = currentPoolOf(w),
              !.poolRemove = poolRemoveOf(currentPoolOf(w), c.validTrending)]
cycleDiffed(c, w) ==
    LET currentPool == currentPoolOf(w)
        poolRemove == poolRemoveOf(currentPool, c.validTrending)
    IN  [c EXCEPT !.pc = IF Len(poolRemove) > 0 THEN "remove" ELSE "balance",
                  !.currentPool = currentPool,
                  !.poolRemove = poolRemove]

\* getAllPoolPostions(), currentPool, trendingTokens and poolRemove; a failed
\* read is caught by the outer catch
executeAutomatedTrading_Snapshot ==
    /\ cyc.pc = "snapshot"
    /\ \E ok \in BOOLEAN :
          cyc' = IF ok THEN cycleDiffed(cyc, wallet) ELSE cycleFailed(cyc)
    /\ UNCHANGED <<wallet, clr, retryVars, zapVars, sched, utilVars>>

\* where an iteration of a per-item loop leaves off: its catch block ends
\* the iteration, and the loop goes on while items remain
StopAtFailure(ok, n, total, again, after) ==
    IF ~ok THEN "done" ELSE IF n < total THEN again ELSE after
loopNext(ok, n, total, again, after) ==
    IF n < total THEN again ELSE after

\* one iteration of for (const pool of poolRemove): try zapOutPosition, catch
executeAutomatedTrading_ZapOut ==
    /\ cyc.pc = "remove"
    /\ LET pool == cyc.poolRemove[Len(cyc.zapped) + 1]
       IN  \E in \in ZapInputs :
             LET r == zapOutPosition(wallet, pool, in)
                 zapped == Append(cyc.zapped, [pool |-> pool, ok |-> r.ok])
             IN  /\ wallet' = r.wallet
                 /\ cyc' = [cyc EXCEPT
                              !.zapped = zapped,
                              !.pc = loopNext(r.ok, Len(zapped), Len(cyc.poolRemove),
                                              "remove", "removed")]
    /\ UNCHANGED <<clr, retryVars, zapVars, sched, utilVars>>

\* await new Promise(resolve => setTimeout(resolve, 3000)) after the loop
executeAutomatedTrading_RemoveDelay ==
    /\ cyc.pc = "removed"
    /\ cyc' = [cyc EXCEPT !.pc = "balance"]
    /\ UNCHANGED <<wallet, clr, retryVars, zapVars, sched, utilVars>>

\* tokensToAdd and the allocation from the balance just read
PlansFromStaleBalance(c, solBalance) ==
    LET tokensToAdd == tokensToAddOf(c.currentPool, c.validTrending)
        paid(e) == e.ok
        stale == solBalance - Len(SelectSeq(c.zapped, paid)) * ZapProceeds
        availableSol == availableSolOf(stale)
    IN  IF Len(tokensToAdd) > 0
        THEN [c EXCEPT !.pc = "add", !.solBalance = stale,
                       !.tokensToAdd = tokensToAdd,
                       !.availableSol = availableSol,
                       !.solPerToken = solPerTokenOf(availableSol, Len(tokensToAdd),
                                                     c.MAX_SOL_PER_TOKEN)]
        ELSE [c EXCEPT !.pc = "done", !.solBalance = stale,
                       !.outcome = "completed"]
cyclePlanned(c, solBalance) ==
    LET tokensToAdd == tokensToAddOf(c.currentPool, c.validTrending)
        availableSol == availableSolOf(solBalance)
    IN  IF Len(tokensToAdd) > 0
        THEN [c EXCEPT !.pc = "add", !.solBalance = solBalance,
                       !.tokensToAdd = tokensToAdd,
                       !.availableSol = availableSol,
                       !.solPerToken = solPerTokenOf(availableSol, Len(tokensToAdd),
                                                     c.MAX_SOL_PER_TOKEN)]
        ELSE [c EXCEPT !.pc = "done", !.solBalance = solBalance,
                       !.outcome = "completed"]

\* getTokenBalanceFormattedAuto(wallet, SOL), tokensToAdd and the allocation;
\* a failed read is caught by the outer catch
executeAutomatedTrading_ReadBalance ==
    /\ cyc.pc = "balance"
    /\ \E ok \in BOOLEAN :
          cyc' = IF ok THEN cyclePlanned(cyc, wallet.balance) ELSE cycleFailed(cyc)
    /\ UNCHANGED <<wallet, clr, retryVars, zapVars, sched, utilVars>>

\* one iteration of for (const token of tokensToAdd): try
\* createAutomatedPosition(token, solPerToken), total_position += 1, catch
executeAutomatedTrading_CreatePosition ==
    /\ cyc.pc = "add"
    /\ LET token == cyc.tokensToAdd[Len(cyc.added) + 1]
       IN  \E r \in createAutomatedPosition(wallet, token, cyc.solPerToken) :
             LET added == Append(cyc.added,
                                 [pairAddress |-> token.pairAddress,
                                  maxSolAmount |-> cyc.solPerToken,
                                  committed |-> r.committed, ok |-> r.ok])
             IN  /\ wallet' = r.wallet
                 /\ cyc' = [cyc EXCEPT
                              !.added = added,
                              !.total_position = @ + (IF r.ok THEN 1 ELSE 0),
                              !.pc = loopNext(r.ok, Len(added), Len(cyc.tokensToAdd),
                                              "add", "summary")]
    /\ UNCHANGED <<clr, retryVars, zapVars, sched, utilVars>>

\* the numbers of the summary message: Active positions: ${total_position},
\* Total SOL used: ${tokensToAdd.length * solPerToken}
summaryOf(c) ==
    [positions |-> c.total_position,
     used |-> Len(c.tokensToAdd) * c.solPerToken]

\* the summary message after the loop
executeAutomatedTrading_Summary ==
    /\ cyc.pc = "summary"
    /\ cyc' = [cyc EXCEPT !.pc = "done", !.outcome = "completed"]
    /\ UNCHANGED <<wallet, clr, retryVars, zapVars, sched, utilVars>>

\* The wallet a cycle starts from.
Balances == {0, UnitsPerSol \div 20, UnitsPerSol}

Wallets == [balance : Balances, held : [Pools -> 0..1]]

(***************************************************************************)
(* MeteoraBot.handleClearAllCommand                                        *)
(***************************************************************************)
RECURSIVE positionsFrom(_, _)
positionsFrom(w, i) ==
    IF i > Len(PoolOrder) THEN <<>>
    ELSE [k \in 1..w.held[PoolOrder[i]] |-> PoolOrder[i]] \o positionsFrom(w, i + 1)

\* getAllPoolPostions(): one entry per position of the wallet, with its pool
getAllPoolPostions(w) == positionsFrom(w, 1)

\* const positions = await this.getAllPoolPostions(); a failed read leaves
\* through the outer catch, which rethrows to the command's callback
handleClearAllCommand_Snapshot ==
    /\ clr.pc = "start"
    /\ \E ok \in BOOLEAN :
          clr' = IF ~ok THEN [clr EXCEPT !.pc = "done", !.outcome = "error"]
                 ELSE LET positions == getAllPoolPostions(wallet)
                      IN  [clr EXCEPT !.positions = positions,
                                      !.pc = IF Len(positions) > 0
                                             THEN "clear" ELSE "summary"]
    /\ UNCHANGED <<wallet, cyc, retryVars, zapVars, sched, utilVars>>

\* one iteration of for (const position of positions): try
\* zapOutPosition(position.pool), cleared++, catch
handleClearAllCommand_ZapOut ==
    /\ clr.pc = "clear"
    /\ LET pool == clr.positions[Len(clr.results) + 1]
       IN  \E in \in ZapInputs :
             LET r == zapOutPosition(wallet, pool, in)
                 results == Append(clr.results, [pool |-> pool, ok |-> r.ok])
             IN  /\ wallet' = r.wallet
                 /\ clr' = [clr EXCEPT
                              !.results = results,
                              !.cleared = @ + (IF r.ok THEN 1 ELSE 0),
                              !.pc = loopNext(r.ok, Len(results), Len(clr.positions),
                                              "clear", "summary")]
    /\ UNCHANGED <<cyc, retryVars, zapVars, sched, utilVars>>

\* the "Cleared n/m positions" message after the loop
handleClearAllCommand_Summary ==
    /\ clr.pc = "summary"
    /\ clr' = [clr EXCEPT !.pc = "done", !.outcome = "completed"]
    /\ UNCHANGED <<wallet, cyc, retryVars, zapVars, sched, utilVars>>

\* One handler runs on the wallet: a cycle, or a /clear_all.
Init ==
    /\ sw = SwapIdle /\ lp = LpIdle /\ zap = ZapIdle /\ sel = SelIdle
    /\ wallet \in Wallets
    /\ \/ cyc = [CycleIdle EXCEPT !.pc = "start"] /\ clr = ClearIdle
       \/ cyc = CycleIdle /\ clr = [ClearIdle EXCEPT !.pc = "start"]
    /\ sched = SchedIdle /\ tok = TokIdle /\ note = NoteIdle
    /\ trend = TrendIdle
    /\ fresh = FreshIdle /\ flight = FlightIdle /\ agg = AggIdle

Next ==
    \/ handleClearAllCommand_Snapshot
    \/ handleClearAllCommand_ZapOut
    \/ handleClearAllCommand_Summary
    \/ executeAutomatedTrading_Discover
    \/ executeAutomatedTrading_Snapshot
    \/ executeAutomatedTrading_ZapOut
    \/ executeAutomatedTrading_RemoveDelay
    \/ executeAutomatedTrading_ReadBalance
    \/ executeAutomatedTrading_CreatePosition
    \/ executeAutomatedTrading_Summary

Spec == Init /\ [][Next]_vars

(***************************************************************************)
(* The scheduled job and the command handlers.  An execution is one call   *)
(* of executeAutomatedTrading (from the cron callback) or of               *)
(* handleClearAllCommand (from /clear_all); it runs until it awaits a      *)
(* transaction it has submitted, resumes when that settles, and returns.   *)
(* Every callback runs when its event arrives: nothing in the callbacks    *)
(* looks at the executions already in progress.                            *)
(***************************************************************************)
\* executions followed in one behaviour
MaxExecs == 3

Execution(kind) == [kind |-> kind, pc |-> "running", submitted |-> 0]

\* A start that schedules a job each time.
SetsUpEveryTime(jobs) == jobs + 1

\* if (!this.scheduledJobs || this.scheduledJobs.length === 0)
\*     this.setupScheduledJobs();      (which pushes one job)
scheduledJobsAtStart(jobs) == IF jobs = 0 THEN jobs + 1 ELSE jobs

\* startAutomation(): set the job up if there is none, start every job
startAutomation ==
    /\ sched' = [sched EXCEPT !.jobs = scheduledJobsAtStart(@),
                              !.started = TRUE]
    /\ UNCHANGED <<retryVars, zapVars, cycleVars, utilVars>>

\* stopAutomation(): stop every job
stopAutomation ==
    /\ sched' = [sched EXCEPT !.started = FALSE]
    /\ UNCHANGED <<retryVars, zapVars, cycleVars, utilVars>>

\* the cron callback: await this.executeAutomatedTrading()
autoTradingJob_Tick ==
    /\ sched.jobs > 0 /\ sched.started
    /\ Len(sched.execs) < MaxExecs
    /\ sched' = [sched EXCEPT !.execs = Append(@, Execution("executeAutomatedTrading"))]
    /\ UNCHANGED <<retryVars, zapVars, cycleVars, utilVars>>

\* bot.onText(/\/clear_all/): await this.handleClearAllCommand()
onText_clear_all ==
    /\ Len(sched.execs) < MaxExecs
    /\ sched' = [sched EXCEPT !.execs = Append(@, Execution("handleClearAllCommand"))]
    /\ UNCHANGED <<retryVars, zapVars, cycleVars, utilVars>>

\* an execution sends a transaction for the wallet and awaits it
execution_Submit ==
    /\ \E i \in 1..Len(sched.execs) :
          /\ sched.execs[i].pc = "running"
          /\ sched.execs[i].submitted = 0
          /\ sched' = [sched EXCEPT !.execs[i].pc = "submitting",
                                    !.execs[i].submitted = @ + 1]
    /\ UNCHANGED <<retryVars, zapVars, cycleVars, utilVars>>

\* the awaited transaction settles and the execution resumes
execution_Settle ==
    /\ \E i \in 1..Len(sched.execs) :
          /\ sched.execs[i].pc = "submitting"
          /\ sched' = [sched EXCEPT !.execs[i].pc = "running"]
    /\ UNCHANGED <<retryVars, zapVars, cycleVars, utilVars>>

\* the execution returns to its callback
execution_Return ==
    /\ \E i \in 1..Len(sched.execs) :
          /\ sched.execs[i].pc = "running"
          /\ sched' = [sched EXCEPT !.execs[i].pc = "done"]
    /\ UNCHANGED <<retryVars, zapVars, cycleVars, utilVars>>

InitSched ==
    /\ sw = SwapIdle /\ lp = LpIdle /\ zap = ZapIdle /\ sel = SelIdle
    /\ wallet = WalletNone /\ cyc = CycleIdle /\ clr = ClearIdle
    /\ sched = SchedIdle /\ tok = TokIdle /\ note = NoteIdle
    /\ trend = TrendIdle
    /\ fresh = FreshIdle /\ flight = FlightIdle /\ agg = AggIdle

NextSched ==
    \/ startAutomation
    \/ stopAutomation
    \/ autoTradingJob_Tick
    \/ onText_clear_all
    \/ execution_Submit
    \/ execution_Settle
    \/ execution_Return

SpecSched == InitSched /\ [][NextSched]_vars

(***************************************************************************)
(* TokenUtils.getTokenDecimals and clearCache.  A call that misses the     *)
(* cache awaits getMint; other calls on the same TokenUtils run meanwhile. *)
(***************************************************************************)
\* getTokenDecimals calls followed in one behaviour
MaxCalls == 3

\* clearCache calls followed in one behaviour
MaxClears == 1

\* this.cache.set(cacheKey, 6); return 6
FallbackDecimals == 6

\* mintInfo.decimals of the mint on the ledger
mintDecimals(key) == IF key.program = "Token" THEN 9 ELSE 6

\* the calls that are awaiting getMint
Pending(t) == {i \in 1..Len(t.calls) : t.calls[i].pc = "getMint"}

\* getTokenDecimals(tokenMint, tokenProgram) up to its return from the cache
\* or its await of getMint
AlwaysLooksUp(t, key) ==
    [t EXCEPT !.calls = Append(@, [key |-> key, pc |-> "getMint", remote |-> TRUE,
                                   failed |-> FALSE, ret |-> Undefined,
                                   alone |-> Pending(t) = {},
                                   clears |-> t.clears])]
tokCall(t, key) ==
    IF t.cache[key] # Undefined
    THEN [t EXCEPT !.calls = Append(@, [key |-> key, pc |-> "returned", remote |-> FALSE,
                                        failed |-> FALSE, ret |-> t.cache[key],
                                        alone |-> Pending(t) = {},
                                        clears |-> t.clears])]
    ELSE [t EXCEPT !.calls = Append(@, [key |-> key, pc |-> "getMint", remote |-> TRUE,
                                        failed |-> FALSE, ret |-> Undefined,
                                        alone |-> Pending(t) = {},
                                        clears |-> t.clears])]

\* getMint resolves (cache.set(cacheKey, mintInfo.decimals)) or rejects
\* (cache.set(cacheKey, 6)), and the call returns what it stored
tokResolved(t, i, ok) ==
    LET key == t.calls[i].key
        value == IF ok THEN mintDecimals(key) ELSE FallbackDecimals
    IN  [t EXCEPT !.cache[key] = value,
                  !.calls[i].pc = "returned",
                  !.calls[i].failed = ~ok,
                  !.calls[i].ret = value,
                  !.calls[i].clears = t.clears]

getTokenDecimals_Call ==
    /\ Len(tok.calls) < MaxCalls
    /\ \E key \in Keys : tok' = tokCall(tok, key)
    /\ UNCHANGED <<retryVars, zapVars, cycleVars, sched, note, trend, fresh, flight, agg>>

getTokenDecimals_GetMint ==
    /\ \E i \in Pending(tok), ok \in BOOLEAN : tok' = tokResolved(tok, i, ok)
    /\ UNCHANGED <<retryVars, zapVars, cycleVars, sched, note, trend, fresh, flight, agg>>

\* clearCache(): this.cache.clear()
clearCache ==
    /\ tok.clears < MaxClears
    /\ tok' = [tok EXCEPT !.cache = [k \in Keys |-> Undefined], !.clears = @ + 1]
    /\ UNCHANGED <<retryVars, zapVars, cycleVars, sched, note, trend, fresh, flight, agg>>

InitTok ==
    /\ sw = SwapIdle /\ lp = LpIdle /\ zap = ZapIdle /\ sel = SelIdle
    /\ wallet = WalletNone /\ cyc = CycleIdle /\ clr = ClearIdle
    /\ sched = SchedIdle /\ tok = TokIdle /\ note = NoteIdle
    /\ trend = TrendIdle
    /\ fresh = FreshIdle /\ flight = FlightIdle /\ agg = AggIdle

NextTok ==
    \/ getTokenDecimals_Call
    \/ getTokenDecimals_GetMint
    \/ clearCache

SpecTok == InitTok /\ [][NextTok]_vars

(***************************************************************************)
(* MeteoraBot.sendMessage and the cycle that calls it.  The cycle is the   *)
(* list of its operations on the wallet, each followed by a notification;  *)
(* bot.sendMessage returns a promise that sendMessage neither awaits nor   *)
(* gives a rejection handler.                                              *)
(***************************************************************************)
\* the operations of the cycle, in the order of its loops
Plan == <<"zapOut A", "zapOut B", "add C">>

\* what a call of this.bot.sendMessage(...) does: returns a promise that
\* resolves, throws before returning, or returns a promise that rejects
BotSendOutcomes == {"resolves", "throws", "rejects"}

\* sendMessage(text): the HTML call inside try; in its catch the plain-text
\* call inside a try of its own.  Returns, never throws.
sendMessage(html, plain) ==
    [delivered |-> html = "resolves" \/ (html = "throws" /\ plain = "resolves"),
     rejected |-> IF html = "rejects" \/ (html = "throws" /\ plain = "rejects")
                  THEN 1 ELSE 0,
     raised |-> FALSE]

\* a promise rejected with no handler: the runtime either only reports it
\* or raises it as an uncaught exception, which ends the process
UnhandledRejectionModes == {"warn", "throw"}

noteSent(n, r) ==
    [n EXCEPT !.log = Append(@, r.delivered), !.unhandled = @ + r.rejected]

\* this.sendMessage("Starting automated trading cycle...")
executeAutomatedTrading_Notify ==
    /\ note.pc = "idle"
    /\ \E html \in BotSendOutcomes, plain \in BotSendOutcomes :
          note' = [noteSent(note, sendMessage(html, plain)) EXCEPT !.pc = "running"]
    /\ UNCHANGED <<retryVars, zapVars, cycleVars, sched, tok, trend, fresh, flight, agg>>

\* the next operation of the cycle and the notification of its result
executeAutomatedTrading_Operation ==
    /\ note.pc = "running"
    /\ \E html \in BotSendOutcomes, plain \in BotSendOutcomes :
          LET performed == Append(note.performed, Plan[Len(note.performed) + 1])
              sent == noteSent([note EXCEPT !.performed = performed],
                               sendMessage(html, plain))
          IN  note' = [sent EXCEPT !.pc = IF Len(performed) < Len(Plan)
                                          THEN "running" ELSE "done"]
    /\ UNCHANGED <<retryVars, zapVars, cycleVars, sched, tok, trend, fresh, flight, agg>>

\* the runtime deals with a rejected promise that has no handler
unhandledRejection ==
    /\ note.unhandled > 0 /\ note.pc # "terminated"
    /\ \E mode \in UnhandledRejectionModes :
          note' = IF mode = "throw"
                  THEN [note EXCEPT !.pc = "terminated", !.unhandled = @ - 1]
                  ELSE [note EXCEPT !.unhandled = @ - 1]
    /\ UNCHANGED <<retryVars, zapVars, cycleVars, sched, tok, trend, fresh, flight, agg>>

InitNotify ==
    /\ sw = SwapIdle /\ lp = LpIdle /\ zap = ZapIdle /\ sel = SelIdle
    /\ wallet = WalletNone /\ cyc = CycleIdle /\ clr = ClearIdle
    /\ sched = SchedIdle /\ tok = TokIdle /\ note = NoteIdle
    /\ trend = TrendIdle
    /\ fresh = FreshIdle /\ flight = FlightIdle /\ agg = AggIdle

NextNotify ==
    \/ executeAutomatedTrading_Notify
    \/ executeAutomatedTrading_Operation
    \/ unhandledRejection

SpecNotify == InitNotify /\ [][NextNotify]_vars

(***************************************************************************)
(* getTrendingTokens: the unique addresses are cut into chunks, one        *)
(* getProfileTokenAddress request per chunk, all awaited with Promise.all. *)
(***************************************************************************)
\* the longest list of unique addresses
MaxAddresses == 65

\* const chunkSize = 30
chunkSize == 30

\* if (tokenAddresses.length > 30) return []
MaxProfileAddresses == 30

\* Array.prototype.slice(from, to), indices counted from 0
OverlappingSlice(list, from, to) == SubSeq(list, from + 1, Min(to + 1, Len(list)))
sliceFromTo(list, from, to) == SubSeq(list, from + 1, Min(to, Len(list)))

\* for (let i = 0; i < quoteAddresses.length; i += chunkSize)
\*   chunks.push(quoteAddresses.slice(i, i + chunkSize))
RECURSIVE chunksFrom(_, _)
chunksFrom(quoteAddresses, i) ==
    IF i < Len(quoteAddresses)
    THEN <<sliceFromTo(quoteAddresses, i, i + chunkSize)>>
           \o chunksFrom(quoteAddresses, i + chunkSize)
    ELSE <<>>

\* the profile the API returns for an address
profileOf(address) == [address |-> address, pairAddress |-> address + 1000]

\* getProfileTokenAddress(tokenAddresses): the request it sends, if any, and
\* what it returns when the API answers
getProfileTokenAddress(tokenAddresses) ==
    IF Len(tokenAddresses) > MaxProfileAddresses
    THEN [requested |-> FALSE, request |-> <<>>, profiles |-> <<>>]
    ELSE [requested |-> TRUE, request |-> tokenAddresses,
          profiles |-> [i \in 1..Len(tokenAddresses) |-> profileOf(tokenAddresses[i])]]

\* Array.prototype.flat()
RECURSIVE flat(_)
flat(batches) ==
    IF Len(batches) = 0 THEN <<>> ELSE Head(batches).value \o flat(Tail(batches))

Unsettled == [state |-> "pending", value |-> <<>>]

\* a promise Promise.all is waiting for settles: its value goes to the
\* promise's place in the result, whenever it arrives
settled(batches, c, value) ==
    [batches EXCEPT ![c] = [state |-> "fulfilled", value |-> value]]

\* getTrendingTokens() up to await Promise.all(...); a failure of
\* getTokenTrending is caught and gives []
getTrendingTokens_Call ==
    /\ trend.pc = "idle"
    /\ \E n \in 0..MaxAddresses, ok \in BOOLEAN :
          LET quoteAddresses == [i \in 1..n |-> i]
              chunks == chunksFrom(quoteAddresses, 0)
              calls == [c \in 1..Len(chunks) |-> getProfileTokenAddress(chunks[c])]
          IN  trend' =
                IF ~ok \/ n = 0
                THEN [trend EXCEPT !.pc = "done",
                                   !.quoteAddresses = IF ok THEN quoteAddresses ELSE <<>>]
                ELSE [trend EXCEPT
                        !.pc = "awaiting",
                        !.quoteAddresses = quoteAddresses,
                        !.chunks = chunks,
                        !.requests = [c \in 1..Len(chunks) |-> calls[c].request],
                        !.batches = [c \in 1..Len(chunks) |-> Unsettled]]
    /\ UNCHANGED <<retryVars, zapVars, cycleVars, sched, tok, note, fresh, flight, agg>>

\* the answer to one chunk's request arrives; when the last one has,
\* profiles = profilesBatches.flat().  A request that fails rejects
\* Promise.all, and the catch returns [].
getTrendingTokens_Response ==
    /\ trend.pc = "awaiting"
    /\ \E c \in 1..Len(trend.batches), ok \in BOOLEAN :
          /\ trend.batches[c].state = "pending"
          /\ LET value == getProfileTokenAddress(trend.chunks[c]).profiles
                 batches == settled(trend.batches, c, value)
                 arrived == Append(trend.arrived, c)
             IN  trend' =
                   IF ~ok
                   THEN [trend EXCEPT !.pc = "done", !.arrived = arrived,
                                      !.profiles = <<>>]
                   ELSE IF Len(arrived) = Len(batches)
                   THEN [trend EXCEPT !.pc = "done", !.arrived = arrived,
                                      !.batches = batches,
                                      !.profiles = flat(batches)]
                   ELSE [trend EXCEPT !.arrived = arrived, !.batches = batches]
    /\ UNCHANGED <<retryVars, zapVars, cycleVars, sched, tok, note, fresh, flight, agg>>

\* getProfileTokenAddress called on its own with any list of addresses
getProfileTokenAddress_Call ==
    /\ trend.pc = "idle"
    /\ \E n \in 0..MaxAddresses :
          LET tokenAddresses == [i \in 1..n |-> i]
              r == getProfileTokenAddress(tokenAddresses)
          IN  trend' = [trend EXCEPT
                          !.pc = "returned",
                          !.quoteAddresses = tokenAddresses,
                          !.requests = IF r.requested THEN <<r.request>> ELSE <<>>,
                          !.profiles = r.profiles]
    /\ UNCHANGED <<retryVars, zapVars, cycleVars, sched, tok, note, fresh, flight, agg>>

InitTrend ==
    /\ sw = SwapIdle /\ lp = LpIdle /\ zap = ZapIdle /\ sel = SelIdle
    /\ wallet = WalletNone /\ cyc = CycleIdle /\ clr = ClearIdle
    /\ sched = SchedIdle /\ tok = TokIdle /\ note = NoteIdle
    /\ trend = TrendIdle
    /\ fresh = FreshIdle /\ flight = FlightIdle /\ agg = AggIdle

NextTrend ==
    \/ getTrendingTokens_Call
    \/ getTrendingTokens_Response
    \/ getProfileTokenAddress_Call

SpecTrend == InitTrend /\ [][NextTrend]_vars

(***************************************************************************)
(* The attempt bodies of the two retry loops, one step per awaited         *)
(* request, with what each submission was built from.                      *)
(***************************************************************************)
\* where the body of the for loop begins: every statement that obtains a
\* quote, the pool state, a keypair or a blockhash is inside the loop
ResubmitsOnRetry(op, attempt) ==
    IF attempt > 1 THEN "send"
    ELSE IF op = "swap" THEN "getQuote" ELSE "getPoolAndTokenInfo"
bodyStart(op, attempt) ==
    IF op = "swap" THEN "getQuote" ELSE "getPoolAndTokenInfo"

\* the call: for (let attempt = 1; attempt <= maxRetries; attempt++)
freshEnter(op, maxRetries) ==
    [FreshIdle EXCEPT !.op = op, !.maxRetries = maxRetries, !.attempt = 1,
                      !.pc = IF maxRetries >= 1 THEN bodyStart(op, 1) ELSE "threw"]

\* catch (error): the delay when attempt < maxRetries, else the loop ends
\* and the function throws
freshCaught(f) ==
    [f EXCEPT !.failedAt = f.clock,
              !.pc = IF f.attempt < f.maxRetries THEN "delay" ELSE "threw"]

\* an awaited request answers: the clock moves on
answered(f) == [f EXCEPT !.clock = @ + 1]

\* the record of a submission: the attempt, what the transaction was built
\* from, and the clock at the failure before it
submissionOf(f) ==
    [attempt |-> f.attempt, quote |-> f.quote, poolState |-> f.poolState,
     keypair |-> f.keypair, blockhash |-> f.blockhash, after |-> f.failedAt]

retry_Call ==
    /\ fresh.pc = "idle"
    /\ \E op \in {"swap", "lp"}, maxRetries \in 0..MaxRetriesArg :
          fresh' = freshEnter(op, maxRetries)
    /\ UNCHANGED <<retryVars, zapVars, cycleVars, sched, tok, note, trend, flight, agg>>

\* const quote = await this.getQuote(...)
swapTokens_GetQuote ==
    /\ fresh.pc = "getQuote"
    /\ \E ok \in BOOLEAN :
          fresh' = IF ok
                   THEN [answered(fresh) EXCEPT !.quote = fresh.clock + 1,
                                                !.pc = "swapTransaction"]
                   ELSE freshCaught(answered(fresh))
    /\ UNCHANGED <<retryVars, zapVars, cycleVars, sched, tok, note, trend, flight, agg>>

\* POST /swap/v1/swap with quoteResponse: quote; the answer is the serialized
\* transaction, which carries the blockhash the API put into it
swapTokens_SwapTransaction ==
    /\ fresh.pc = "swapTransaction"
    /\ \E ok \in BOOLEAN :
          fresh' = IF ok
                   THEN [answered(fresh) EXCEPT !.blockhash = fresh.clock + 1,
                                                !.pc = "send"]
                   ELSE freshCaught(answered(fresh))
    /\ UNCHANGED <<retryVars, zapVars, cycleVars, sched, tok, note, trend, flight, agg>>

\* getPoolAndTokenInfo(): fetchPoolState and the token A info
createPositionAndAddLiquidity_GetPoolAndTokenInfo ==
    /\ fresh.pc = "getPoolAndTokenInfo"
    /\ \E ok \in BOOLEAN :
          fresh' = IF ok
                   THEN [answered(fresh) EXCEPT !.poolState = fresh.clock + 1,
                                                !.pc = "createPositionTransaction"]
                   ELSE freshCaught(answered(fresh))
    /\ UNCHANGED <<retryVars, zapVars, cycleVars, sched, tok, note, trend, flight, agg>>

\* Keypair.generate(), calculateLiquidityDelta and
\* createPositionTransactionWithSlippage(positionNft, ..., poolState, ...)
createPositionAndAddLiquidity_CreatePositionTransaction ==
    /\ fresh.pc = "createPositionTransaction"
    /\ \E ok \in BOOLEAN :
          fresh' = IF ok
                   THEN [answered(fresh) EXCEPT !.keypair = fresh.clock + 1,
                                                !.pc = "getLatestBlockhash"]
                   ELSE freshCaught([answered(fresh) EXCEPT !.keypair = fresh.clock + 1])
    /\ UNCHANGED <<retryVars, zapVars, cycleVars, sched, tok, note, trend, flight, agg>>

\* executeTransaction: transaction.recentBlockhash =
\* (await this.connection.getLatestBlockhash()).blockhash
createPositionAndAddLiquidity_GetLatestBlockhash ==
    /\ fresh.pc = "getLatestBlockhash"
    /\ \E ok \in BOOLEAN :
          fresh' = IF ok
                   THEN [answered(fresh) EXCEPT !.blockhash = fresh.clock + 1,
                                                !.pc = "send"]
                   ELSE freshCaught(answered(fresh))
    /\ UNCHANGED <<retryVars, zapVars, cycleVars, sched, tok, note, trend, flight, agg>>

\* sendTransaction and confirmTransaction (swap), sendAndConfirmTransaction
\* (position): the signed transaction is submitted
retry_Send ==
    /\ fresh.pc = "send"
    /\ \E ok \in BOOLEAN :
          LET sent == [answered(fresh) EXCEPT
                         !.submissions = Append(@, submissionOf(fresh))]
          IN  fresh' = IF ok THEN [sent EXCEPT !.pc = "returned"]
                       ELSE freshCaught(sent)
    /\ UNCHANGED <<retryVars, zapVars, cycleVars, sched, tok, note, trend, flight, agg>>

\* await new Promise(resolve => setTimeout(resolve, 2000)); attempt++
retry_Delay ==
    /\ fresh.pc = "delay"
    /\ fresh' = [fresh EXCEPT !.attempt = @ + 1,
                              !.pc = bodyStart(fresh.op, fresh.attempt + 1)]
    /\ UNCHANGED <<retryVars, zapVars, cycleVars, sched, tok, note, trend, flight, agg>>

InitFresh ==
    /\ sw = SwapIdle /\ lp = LpIdle /\ zap = ZapIdle /\ sel = SelIdle
    /\ wallet = WalletNone /\ cyc = CycleIdle /\ clr = ClearIdle
    /\ sched = SchedIdle /\ tok = TokIdle /\ note = NoteIdle
    /\ trend = TrendIdle
    /\ fresh = FreshIdle /\ flight = FlightIdle /\ agg = AggIdle

NextFresh ==
    \/ retry_Call
    \/ swapTokens_GetQuote
    \/ swapTokens_SwapTransaction
    \/ createPositionAndAddLiquidity_GetPoolAndTokenInfo
    \/ createPositionAndAddLiquidity_CreatePositionTransaction
    \/ createPositionAndAddLiquidity_GetLatestBlockhash
    \/ retry_Send
    \/ retry_Delay

SpecFresh == InitFresh /\ [][NextFresh]_vars

(***************************************************************************)
(* executeAutomatedTrading, one step per submission of a signed            *)
(* transaction, per settlement of one and per delay.  A submission is in   *)
(* flight from the call that sends it until the promise the handler awaits *)
(* for it settles.                                                         *)
(***************************************************************************)
\* the most pools a phase of the cycle works on
MaxItems == 2

\* const signature = await sendAndConfirmTransaction(...): the handler goes
\* on only when the promise has settled
FireAndForget(awaiting, next) == next
awaited(awaiting, next) == awaiting

logged(f, e, phase) == [f EXCEPT !.log = Append(@, [e |-> e, phase |-> phase])]

\* a transaction is handed to the network
submit(f) ==
    [f EXCEPT !.submitted = @ + 1, !.inFlight = @ \cup {f.submitted + 1}]

\* the awaited promise of the latest submission settles
settle(f) == [f EXCEPT !.inFlight = @ \ {f.submitted}]

\* the remove loop after an item: the next pool, or the 3-second delay
\* after the loop
afterZapOut(f) ==
    [logged(f, "end", "remove") EXCEPT
        !.removeLeft = @ - 1,
        !.pc = IF f.removeLeft > 1 THEN "zapOut" ELSE "removed"]

\* the add loop after an item: the next token, or the summary
afterAdd(f) ==
    [f EXCEPT !.addLeft = @ - 1,
              !.pc = IF f.addLeft > 1 THEN "add" ELSE "done"]

\* catch (error) of the add loop: the message, and on to the next token
addFailed(f) == afterAdd(logged(f, "end", "add"))

\* poolRemove and tokensToAdd of the cycle
cycle_Begin ==
    /\ flight.pc = "idle"
    /\ \E r \in 0..MaxItems, a \in 0..MaxItems :
          flight' = [FlightIdle EXCEPT
                       !.removeLeft = r, !.addLeft = a,
                       !.pc = IF r > 0 THEN "zapOut"
                              ELSE IF a > 0 THEN "add" ELSE "done"]
    /\ UNCHANGED <<retryVars, zapVars, cycleVars, sched, tok, note, trend, fresh, agg>>

\* await this.zapOutPosition(pool) up to sendAndConfirmTransaction; a
\* failure before the transaction is sent ends the item
cycle_ZapOut ==
    /\ flight.pc = "zapOut"
    /\ \E sends \in BOOLEAN :
          LET f == logged(flight, "start", "remove")
          IN  flight' = IF sends
                        THEN [submit(f) EXCEPT
                                !.pc = awaited("zapOutAwait", afterZapOut(f).pc)]
                        ELSE afterZapOut(f)
    /\ UNCHANGED <<retryVars, zapVars, cycleVars, sched, tok, note, trend, fresh, agg>>

\* sendAndConfirmTransaction of the zap-out resolves or rejects
cycle_ZapOutSettled ==
    /\ flight.pc = "zapOutAwait"
    /\ flight' = afterZapOut(settle(flight))
    /\ UNCHANGED <<retryVars, zapVars, cycleVars, sched, tok, note, trend, fresh, agg>>

\* await new Promise(resolve => setTimeout(resolve, 3000)) after the remove
\* loop
cycle_RemoveDelay ==
    /\ flight.pc = "removed"
    /\ flight' = [logged(flight, "delay", "remove") EXCEPT
                    !.pc = IF flight.addLeft > 0 THEN "add" ELSE "done"]
    /\ UNCHANGED <<retryVars, zapVars, cycleVars, sched, tok, note, trend, fresh, agg>>

\* await this.createAutomatedPosition(token, solPerToken) up to swapTokens
cycle_CreatePosition ==
    /\ flight.pc = "add"
    /\ flight' = [logged(flight, "start", "add") EXCEPT
                    !.pc = "swap", !.attempt = 1, !.swapConfirmed = FALSE]
    /\ UNCHANGED <<retryVars, zapVars, cycleVars, sched, tok, note, trend, fresh, agg>>

\* an attempt of a retry loop failed: the 2-second delay, or the throw that
\* the add loop catches
attemptFailed(f, delay) ==
    IF f.attempt < DefaultMaxRetries THEN [f EXCEPT !.pc = delay]
    ELSE addFailed(f)

\* an attempt of swapTokens up to connection.sendTransaction(transaction)
cycle_Swap ==
    /\ flight.pc = "swap"
    /\ \E sends \in BOOLEAN :
          flight' = IF sends
                    THEN [submit(flight) EXCEPT !.pc = awaited("swapAwait", "lp")]
                    ELSE attemptFailed(flight, "swapDelay")
    /\ UNCHANGED <<retryVars, zapVars, cycleVars, sched, tok, note, trend, fresh, agg>>

\* await this.connection.confirmTransaction(signature, 'confirmed')
\* resolves (swapTokens returns) or rejects
cycle_SwapSettled ==
    /\ flight.pc = "swapAwait"
    /\ \E ok \in BOOLEAN :
          flight' = IF ok
                    THEN [settle(flight) EXCEPT !.pc = "lp", !.attempt = 1,
                                                !.swapConfirmed = TRUE]
                    ELSE attemptFailed(settle(flight), "swapDelay")
    /\ UNCHANGED <<retryVars, zapVars, cycleVars, sched, tok, note, trend, fresh, agg>>

\* an attempt of createPositionAndAddLiquidity up to
\* sendAndConfirmTransaction
cycle_AddLiquidity ==
    /\ flight.pc = "lp"
    /\ \E sends \in BOOLEAN :
          flight' = IF sends
                    THEN [submit(flight) EXCEPT !.pc = awaited("lpAwait", "paced")]
                    ELSE attemptFailed(flight, "lpDelay")
    /\ UNCHANGED <<retryVars, zapVars, cycleVars, sched, tok, note, trend, fresh, agg>>

\* sendAndConfirmTransaction of the position resolves or rejects; on success
\* createAutomatedPosition returns and total_position += 1
cycle_AddLiquiditySettled ==
    /\ flight.pc = "lpAwait"
    /\ \E ok \in BOOLEAN :
          flight' = IF ok
                    THEN [logged(settle(flight), "end", "add") EXCEPT !.pc = "paced"]
                    ELSE attemptFailed(settle(flight), "lpDelay")
    /\ UNCHANGED <<retryVars, zapVars, cycleVars, sched, tok, note, trend, fresh, agg>>

\* await new Promise(resolve => setTimeout(resolve, 2000)) of a retry loop
cycle_RetryDelay ==
    /\ flight.pc \in {"swapDelay", "lpDelay"}
    /\ flight' = [flight EXCEPT !.attempt = @ + 1,
                                !.pc = IF flight.pc = "swapDelay" THEN "swap" ELSE "lp"]
    /\ UNCHANGED <<retryVars, zapVars, cycleVars, sched, tok, note, trend, fresh, agg>>

\* await new Promise(resolve => setTimeout(resolve, 3000)) in the try block
\* of the add loop, after total_position += 1
cycle_AddDelay ==
    /\ flight.pc = "paced"
    /\ flight' = afterAdd(logged(flight, "delay", "add"))
    /\ UNCHANGED <<retryVars, zapVars, cycleVars, sched, tok, note, trend, fresh, agg>>

InitFlight ==
    /\ sw = SwapIdle /\ lp = LpIdle /\ zap = ZapIdle /\ sel = SelIdle
    /\ wallet = WalletNone /\ cyc = CycleIdle /\ clr = ClearIdle
    /\ sched = SchedIdle /\ tok = TokIdle /\ note = NoteIdle
    /\ trend = TrendIdle
    /\ fresh = FreshIdle /\ flight = FlightIdle /\ agg = AggIdle

NextFlight ==
    \/ cycle_Begin
    \/ cycle_ZapOut
    \/ cycle_ZapOutSettled
    \/ cycle_RemoveDelay
    \/ cycle_CreatePosition
    \/ cycle_Swap
    \/ cycle_SwapSettled
    \/ cycle_AddLiquidity
    \/ cycle_AddLiquiditySettled
    \/ cycle_RetryDelay
    \/ cycle_AddDelay

SpecFlight == InitFlight /\ [][NextFlight]_vars

(***************************************************************************)
(* getQuotes and selectBestQuote, one step per venue answer: the venues'   *)
(* promises settle in any order, and Promise.all returns the entries in    *)
(* the order the promises were pushed.                                     *)
(***************************************************************************)
\* await Promise.all(promises) resumes when no promise is pending
ResumesAtFirst(pending) == Cardinality(pending) <= 1
promiseAll(pending) == pending = {}

\* getQuotes(inputAmount) up to Promise.all: one request per venue asked;
\* the native entry is Promise.resolve(null) when the SDK object is not set
getQuotes_Call ==
    /\ agg.pc = "idle"
    /\ \E poolType \in PoolTypes, sdk \in BOOLEAN :
          agg' = [AggIdle EXCEPT
                    !.pc = "awaiting", !.poolType = poolType, !.sdk = sdk,
                    !.pending = IF sdk THEN Venues ELSE {"jupiter"}]
    /\ UNCHANGED <<retryVars, zapVars, cycleVars, sched, tok, note, trend, fresh, flight>>

\* the promise of one venue settles: its answer, or its own catch
getQuotes_VenueSettled ==
    /\ agg.pc = "awaiting"
    /\ \E v \in agg.pending, resp \in VenueResponses :
          agg' = [agg EXCEPT !.pending = @ \ {v},
                             !.responses[v] = resp,
                             !.arrived = Append(@, v)]
    /\ UNCHANGED <<retryVars, zapVars, cycleVars, sched, tok, note, trend, fresh, flight>>

\* const [nativeQuote, jupiterQuote] = await Promise.all(promises);
\* const bestQuote = this.selectBestQuote(quotes)
getQuotes_SelectBestQuote ==
    /\ agg.pc = "awaiting" /\ Len(agg.arrived) > 0
    /\ promiseAll(agg.pending)
    /\ LET quotes == getQuotes(agg.poolType, agg.sdk,
                               agg.responses["native"], agg.responses["jupiter"])
           bestQuote == selectBestQuote(quotes.nativeQuote, quotes.jupiterQuote)
       IN  agg' = [agg EXCEPT
                     !.pc = IF bestQuote.protocol = "throw" THEN "threw" ELSE "selected",
                     !.best = bestQuote]
    /\ UNCHANGED <<retryVars, zapVars, cycleVars, sched, tok, note, trend, fresh, flight>>

InitQuotes ==
    /\ sw = SwapIdle /\ lp = LpIdle /\ zap = ZapIdle /\ sel = SelIdle
    /\ wallet = WalletNone /\ cyc = CycleIdle /\ clr = ClearIdle
    /\ sched = SchedIdle /\ tok = TokIdle /\ note = NoteIdle
    /\ trend = TrendIdle
    /\ fresh = FreshIdle /\ flight = FlightIdle /\ agg = AggIdle

NextQuotes ==
    \/ getQuotes_Call
    \/ getQuotes_VenueSettled
    \/ getQuotes_SelectBestQuote

SpecQuotes == InitQuotes /\ [][NextQuotes]_vars

(***************************************************************************)
(*                    Properties of the quote selection                    *)
(***************************************************************************)
\* a quote that is non-null, carries no error and has amount > 0
UsableQuote(q) == q # Null /\ q.error = "" /\ q.amount > 0

MaxOfUsable(nativeQuote, jupiterQuote, out) ==
    LET usable == {q \in {nativeQuote, jupiterQuote} : UsableQuote(q)}
    IN  usable # {} =>
          /\ out.error = ""
          /\ \E q \in usable : out.amount = q.amount /\ out.protocol = q.protocol
          /\ \A q \in usable : q.amount <= out.amount
          /\ (UsableQuote(nativeQuote) /\ nativeQuote.amount = out.amount)
                => out.protocol = nativeQuote.protocol

\* C2: when at least one of the two venue quotes is non-null, has no error
\* and has amount > 0, selectBestQuote returns the quote with the maximum
\* amount among those, and on equal amounts the native venue's quote.
C2_SelectsMaximumNativeOnTie ==
    /\ sel.applied => MaxOfUsable(sel.nativeQuote, sel.jupiterQuote, sel.out)
    /\ zap.pc \in {"build", "send", "returned"}
          => MaxOfUsable(zap.nativeQuote, zap.jupiterQuote, zap.best)

\* two usable quotes of equal amount: the native venue wins
C2_Witness ==
    /\ sel.applied
    /\ UsableQuote(sel.nativeQuote) /\ UsableQuote(sel.jupiterQuote)
    /\ sel.nativeQuote.amount = sel.jupiterQuote.amount
    /\ sel.out.protocol = "dammV2"

\* C3: when every venue quote is null, carries an error or has amount <= 0,
\* selectBestQuote raises the no-route error and executeZapOut submits no
\* transaction.
C3_NoRouteSubmitsNothing ==
    /\ (sel.applied /\ ~UsableQuote(sel.nativeQuote) /\ ~UsableQuote(sel.jupiterQuote))
          => sel.out.protocol = "throw" /\ sel.out.error = NoValidQuotes
    /\ (zap.jupiterQuote # Null /\ zap.pc # "select"
           /\ ~UsableQuote(zap.nativeQuote) /\ ~UsableQuote(zap.jupiterQuote))
          => zap.pc = "threw" /\ zap.error = NoValidQuotes /\ zap.submitted = 0
    /\ zap.error = NoValidQuotes => zap.submitted = 0 /\ zap.landed = 0

\* the native quote failed and Jupiter quoted 0: executeZapOut ended in the
\* no-route error
C3_Witness ==
    /\ zap.pc = "threw" /\ zap.error = NoValidQuotes
    /\ zap.nativeQuote.error # "" /\ zap.jupiterQuote.error = ""
    /\ zap.jupiterQuote.amount = 0

\* the entry getQuotes must hold for a venue, given what the venue answered
EntryFor(protocol, resp, entry) ==
    IF resp = NotAsked THEN entry = Null
    ELSE IF resp.ok
    THEN entry.protocol = protocol /\ entry.amount = resp.amount /\ entry.error = ""
    ELSE entry.protocol = protocol /\ entry.amount = 0 /\ entry.error # ""

Positive(resp) == resp.ok /\ resp.amount > 0

Failed(resp) == resp # NotAsked /\ ~resp.ok

\* C16: a venue whose quote request fails gets an error entry of its own and
\* the other venue's answer is kept as it came; when one venue fails and the
\* other quotes a positive amount the selection returns the other's quote;
\* the no-route error is raised only when no venue gave a positive quote.
C16_VenueFailureNotFatal ==
    zap.responses.jupiter # NotAsked =>
        LET n == zap.responses.native
            j == zap.responses.jupiter
        IN  /\ EntryFor(zap.poolType, n, zap.nativeQuote)
            /\ EntryFor("jupiter", j, zap.jupiterQuote)
            /\ (zap.pc # "select" /\ Failed(n) /\ Positive(j))
                  => /\ zap.error # NoValidQuotes
                     /\ zap.best = [protocol |-> "jupiter", amount |-> j.amount,
                                    error |-> ""]
            /\ (zap.pc # "select" /\ Failed(j) /\ Positive(n))
                  => /\ zap.error # NoValidQuotes
                     /\ zap.best = [protocol |-> zap.poolType, amount |-> n.amount,
                                    error |-> ""]
            /\ zap.error = NoValidQuotes => ~Positive(n) /\ ~Positive(j)

\* Jupiter's request failed, the native venue quoted 2, and the zap-out went
\* through on the native quote
C16_Witness ==
    /\ zap.pc = "returned"
    /\ Failed(zap.responses.jupiter) /\ zap.jupiterQuote.error # ""
    /\ zap.responses.native = [ok |-> TRUE, amount |-> 2]
    /\ zap.best.protocol = zap.poolType /\ zap.best.amount = 2

\* C17: every venue request is bounded by a timeout of its own: a getQuotes
\* call that is waiting for its venues can always go on to return, a venue
\* that never answers being given a failed entry.
C17_QuotesBounded ==
    zap.pc \in {"quotes", "awaitingQuotes"} => ENABLED executeZapOut_GetQuotes

(***************************************************************************)
(*                     Properties of the retry loops                       *)
(***************************************************************************)
ReturnsAtFirstSuccess(s) ==
    /\ \A i \in 1..Len(s.log) :
          IsSuccess(s.log[i]) =>
              i = Len(s.log) /\ s.pc = "returned" /\ s.result = i
    /\ s.pc = "returned" =>
          /\ Len(s.log) \in 1..s.maxRetries
          /\ IsSuccess(s.log[Len(s.log)])
          /\ s.result = Len(s.log)
    /\ s.pc = "threw" => Len(s.log) >= s.maxRetries

\* C4: a retry loop whose attempt body fails on attempts 1..k and succeeds on
\* attempt k+1 (k < maxRetries) returns the result of attempt k+1 after
\* exactly k+1 executions of the body; a success is always the last execution,
\* and the loop gives up only after maxRetries executions.
C4_ReturnsAfterFirstSuccess ==
    ReturnsAtFirstSuccess(sw) /\ ReturnsAtFirstSuccess(lp)

\* swapTokens fails twice and succeeds on the third attempt
C4_Witness ==
    /\ sw.pc = "returned" /\ sw.maxRetries = 3 /\ sw.result = 3
    /\ Len(sw.log) = 3 /\ ~IsSuccess(sw.log[1]) /\ ~IsSuccess(sw.log[2])

ExhaustsExactly(s) ==
    /\ Len(s.log) <= s.maxRetries
    /\ s.pc = "threw" =>
          /\ Len(s.log) = s.maxRetries
          /\ \A i \in 1..Len(s.log) : ~IsSuccess(s.log[i])
          /\ s.error.attempts = s.maxRetries
          /\ s.maxRetries >= 1 => s.error.last = s.log[s.maxRetries].err
    /\ (Len(s.log) = s.maxRetries /\ s.pc # "idle"
           /\ \A i \in 1..Len(s.log) : ~IsSuccess(s.log[i]))
          => s.pc = "threw"

\* C5: with an attempt body that always fails, a retry loop executes the body
\* exactly maxRetries times and then raises one error that carries the
\* attempt count and the message of the last attempt's error.
C5_ExhaustsAfterMaxRetries ==
    ExhaustsExactly(sw) /\ ExhaustsExactly(lp)

\* createPositionAndAddLiquidity gives up after three failures that end in
\* a different error than they began with
C5_Witness ==
    /\ lp.pc = "threw" /\ lp.maxRetries = 3 /\ Len(lp.log) = 3
    /\ lp.log[1].err = "rpc error" /\ lp.log[3].err = "confirm timeout"
    /\ lp.error = [attempts |-> 3, last |-> "confirm timeout"]

\* C6: a fatal error (missing token A info, a non-finite or non-positive
\* configured amount) is surfaced after the single attempt that detected it:
\* no delay and no further attempt follows it.
C6_FatalNotRetried ==
    \A i \in 1..Len(lp.log) :
        IsFatal(lp.log[i].err) =>
            i = Len(lp.log) /\ lp.pc = "threw"

\* C10: over all the attempts of one call of swapTokens or of
\* createPositionAndAddLiquidity, at most one submitted transaction takes
\* effect on the ledger.
C10_EffectiveAtMostOnce ==
    sw.landed <= 1 /\ lp.landed <= 1

(***************************************************************************)
(*                    Properties of the rebalancing cycle                  *)
(***************************************************************************)
ZappedPools == {cyc.zapped[i].pool : i \in 1..Len(cyc.zapped)}

AddedPools == {cyc.added[i].pairAddress : i \in 1..Len(cyc.added)}

DesiredPools == {cyc.validTrending[i].pairAddress : i \in 1..Len(cyc.validTrending)}

\* C1: the pools on which a zap-out is invoked are exactly the current pools
\* that are not desired, the candidates on which createAutomatedPosition is
\* invoked are exactly the desired ones that are not current, and a pool
\* that is both current and desired gets neither.  (Exactly: once the
\* remove loop is over, and once the cycle has completed.)
C1_DiffSets ==
    /\ ZappedPools \subseteq cyc.currentPool \ DesiredPools
    /\ AddedPools \subseteq DesiredPools \ cyc.currentPool
    /\ \A p \in cyc.currentPool \cap DesiredPools :
          p \notin ZappedPools /\ p \notin AddedPools
    /\ cyc.pc \notin {"start", "snapshot", "remove"}
          => ZappedPools = cyc.currentPool \ DesiredPools
    /\ cyc.outcome = "completed"
          => AddedPools = DesiredPools \ cyc.currentPool

\* a completed cycle that zapped out of one pool, added another and left a
\* third, held and still desired, alone
C1_Witness ==
    /\ cyc.outcome = "completed"
    /\ ZappedPools # {} /\ AddedPools # {}
    /\ cyc.currentPool \cap DesiredPools # {}

RECURSIVE SumCommitted(_)
SumCommitted(added) ==
    IF Len(added) = 0 THEN 0
    ELSE Head(added).committed + SumCommitted(Tail(added))

\* C8: the capital the add phase commits (swap inputs and SOL deposited,
\* over every transaction that takes effect) is at most the balance read
\* times 0.989, and for each candidate at most the allocation passed to
\* createAutomatedPosition.
C8_CommittedWithinAllocation ==
    /\ SumCommitted(cyc.added) * 1000 <= cyc.solBalance * 989
    /\ \A i \in 1..Len(cyc.added) :
          cyc.added[i].committed <= cyc.added[i].maxSolAmount

\* every item processed so far is the next item of its list, in order
AttemptedInOrder ==
    /\ Len(cyc.zapped) <= Len(cyc.poolRemove)
    /\ \A i \in 1..Len(cyc.zapped) : cyc.zapped[i].pool = cyc.poolRemove[i]
    /\ Len(cyc.added) <= Len(cyc.tokensToAdd)
    /\ \A i \in 1..Len(cyc.added) :
          cyc.added[i].pairAddress = cyc.tokensToAdd[i].pairAddress
    /\ Len(clr.results) <= Len(clr.positions)
    /\ \A i \in 1..Len(clr.results) : clr.results[i].pool = clr.positions[i]

\* a phase that is over has processed every item of its list
PhasesComplete ==
    /\ cyc.pc \notin {"start", "snapshot", "remove"}
          => Len(cyc.zapped) = Len(cyc.poolRemove)
    /\ cyc.pc \in {"summary", "done"} /\ cyc.outcome # "error"
          => Len(cyc.added) = Len(cyc.tokensToAdd)
    /\ clr.pc \in {"summary", "done"} /\ clr.outcome # "error"
          => Len(clr.results) = Len(clr.positions)

\* a handler ends in the failed outcome only from one of its reads, never
\* from the step of an item
FailsOnlyAtReads ==
    /\ (cyc'.outcome = "error" /\ cyc.outcome # "error")
          => cyc.pc \in {"snapshot", "balance"}
    /\ (clr'.outcome = "error" /\ clr.outcome # "error")
          => clr.pc = "start"

\* C11: in the remove phase, the add phase and /clear_all, the failure of an
\* item ends that item only: every item of the phase is attempted exactly
\* once and in order, the add phase runs after a remove phase with failures,
\* and no item's failure gives the handler the failed outcome.
C11_PerItemFaultIsolation ==
    [](AttemptedInOrder /\ PhasesComplete) /\ [][FailsOnlyAtReads]_vars

\* a completed cycle whose first zap-out failed and was followed by a second,
\* and whose first addition failed
C11_Witness ==
    /\ cyc.outcome = "completed"
    /\ Len(cyc.zapped) = 2 /\ ~cyc.zapped[1].ok
    /\ Len(cyc.added) >= 1 /\ ~cyc.added[1].ok

\* C12: when the read of the positions or the read of the balance fails,
\* the cycle ends there with the failed outcome: no addition came before the
\* failed read, and no zap-out, addition or other step comes after it.
C12_FailedReadAborts ==
    /\ [](cyc.outcome = "error" => cyc.pc = "done" /\ Len(cyc.added) = 0)
    /\ [][cyc.outcome = "error" => (wallet' = wallet /\ cyc' = cyc)]_vars

\* the balance read failed after the remove phase had zapped out
C12_Witness ==
    /\ cyc.outcome = "error" /\ cyc.pc = "done"
    /\ Len(cyc.zapped) > 0 /\ Len(cyc.zapped) = Len(cyc.poolRemove)

\* C13: the remove phase comes before the add phase: when an addition has
\* started, every zap-out of the remove phase has been called and has
\* returned or thrown, and no zap-out comes after an addition.
C13_RemoveBeforeAdd ==
    /\ []((cyc.pc \in {"add", "summary"} \/ Len(cyc.added) > 0)
            => /\ Len(cyc.zapped) = Len(cyc.poolRemove)
               /\ \A i \in 1..Len(cyc.poolRemove) :
                     cyc.zapped[i].pool = cyc.poolRemove[i])
    /\ [][cyc'.zapped # cyc.zapped => Len(cyc.added) = 0 /\ Len(cyc'.added) = 0]_vars

\* an addition made after two zap-outs
C13_Witness ==
    Len(cyc.added) >= 1 /\ Len(cyc.zapped) = 2

(***************************************************************************)
(*                    Properties of the decimals cache                     *)
(***************************************************************************)
\* every call so far began when no other call was awaiting its lookup, and
\* clearCache was never called
OneAfterAnother ==
    tok.clears = 0 /\ \A i \in 1..Len(tok.calls) : tok.calls[i].alone

Lookups(key) ==
    {i \in 1..Len(tok.calls) : tok.calls[i].key = key /\ tok.calls[i].remote}

\* C14: when getTokenDecimals is called one call after another with no
\* clearCache, at most one remote lookup is issued per key, whether it
\* succeeds or fails, and after a failed lookup every later call for the
\* key returns 6 from the cache.
C14_OneLookupPerKey ==
    OneAfterAnother =>
        \A key \in Keys :
            /\ Cardinality(Lookups(key)) <= 1
            /\ \A i \in 1..Len(tok.calls), j \in 1..Len(tok.calls) :
                  (i < j /\ tok.calls[i].key = key /\ tok.calls[j].key = key
                     /\ tok.calls[i].failed)
                  => /\ ~tok.calls[j].remote
                     /\ tok.calls[j].pc = "returned"
                     /\ tok.calls[j].ret = 6

\* three calls in a row for a key whose first lookup failed
C14_Witness ==
    /\ OneAfterAnother /\ Len(tok.calls) = 3
    /\ \A i \in 1..3 : tok.calls[i].key = [mint |-> "M", program |-> "Token"]
    /\ tok.calls[1].failed /\ tok.calls[3].ret = 6

\* C15: with calls that overlap, a key's cached value is never replaced by
\* a different one and every caller for the key gets the same value, unless
\* clearCache is called: each value returned since the last clearCache is
\* the value the cache holds.
C15_CachedValueStable ==
    \A i \in 1..Len(tok.calls) :
        (tok.calls[i].pc = "returned" /\ tok.calls[i].clears = tok.clears)
            => tok.cache[tok.calls[i].key] = tok.calls[i].ret

(***************************************************************************)
(*                    Properties of the notifications                      *)
(***************************************************************************)
\* C18: whatever happens to a notification, at the call or later, the cycle
\* performs the operations it would perform with every notification
\* delivered, in the same order, and no error reaches it: the cycle is never
\* cut short, and a cycle that is over has performed its whole plan.
C18_NotificationFailureContained ==
    /\ note.pc # "terminated"
    /\ \A i \in 1..Len(note.performed) : note.performed[i] = Plan[i]
    /\ note.pc = "done" => note.performed = Plan

(***************************************************************************)
(*                    Properties of the profile lookup                     *)
(***************************************************************************)
\* the requests that carry address a
RequestsWith(a) ==
    {c \in 1..Len(trend.requests) :
        \E i \in 1..Len(trend.requests[c]) : trend.requests[c][i] = a}

\* C19: getTrendingTokens sends at most 30 addresses per profile request and
\* every address in exactly one request (once, within it); the combined
\* result is the profiles in the order of the addresses, in whatever order
\* the answers arrived; getProfileTokenAddress called with more than 30
\* addresses sends no request and returns the empty list.
C19_ChunksOfThirty ==
    /\ \A c \in 1..Len(trend.requests) : Len(trend.requests[c]) <= 30
    /\ trend.pc = "awaiting" \/ (trend.pc = "done" /\ Len(trend.arrived) > 0)
          => \A k \in 1..Len(trend.quoteAddresses) :
                LET a == trend.quoteAddresses[k]
                IN  /\ Cardinality(RequestsWith(a)) = 1
                    /\ \A c \in RequestsWith(a) :
                          Cardinality({i \in 1..Len(trend.requests[c]) :
                                          trend.requests[c][i] = a}) = 1
    /\ (trend.pc = "done" /\ Len(trend.arrived) > 0
            /\ Len(trend.arrived) = Len(trend.requests)
            /\ \A c \in 1..Len(trend.batches) : trend.batches[c].state = "fulfilled")
          => /\ Len(trend.profiles) = Len(trend.quoteAddresses)
             /\ \A k \in 1..Len(trend.quoteAddresses) :
                   trend.profiles[k].address = trend.quoteAddresses[k]
    /\ (trend.pc = "returned" /\ Len(trend.quoteAddresses) > 30)
          => trend.requests = <<>> /\ trend.profiles = <<>>

\* 65 addresses in three requests whose answers arrived last, first, second
C19_Witness ==
    /\ trend.pc = "done" /\ Len(trend.quoteAddresses) = 65
    /\ Len(trend.requests) = 3 /\ trend.arrived = <<3, 1, 2>>
    /\ Len(trend.profiles) = 65

(***************************************************************************)
(*                    Properties of the escalation                         *)
(***************************************************************************)
\* the attempt body runs, or has run, with the loop variable at this value
InLoopBody(s) == s.pc \in {"attempt", "delay", "returned"}

\* C20: over the attempts of one swapTokens call, in the order they ran, the
\* slippage and the max-accounts ceiling never decrease; over the attempts of
\* one createPositionAndAddLiquidity call the slippage buffer never decreases
\* and the amount factor never increases; and no attempt body runs with an
\* attempt number above maxRetries (no more than maxRetries attempts run).
C20_EscalationMonotone ==
    /\ \A i, j \in 1..Len(sw.used) :
          i < j => /\ sw.used[j].slippage >= sw.used[i].slippage
                   /\ sw.used[j].maxAccounts >= sw.used[i].maxAccounts
    /\ \A i, j \in 1..Len(lp.used) :
          i < j => /\ lp.used[j].buffer >= lp.used[i].buffer
                   /\ lp.used[j].factor <= lp.used[i].factor
    /\ InLoopBody(sw) => sw.attempt >= 1 /\ sw.attempt <= sw.maxRetries
    /\ InLoopBody(lp) => lp.attempt >= 1 /\ lp.attempt <= lp.maxRetries
    /\ Len(sw.log) <= sw.maxRetries /\ Len(lp.log) <= lp.maxRetries

\* three attempts of a swap: the slippage rose at each, the ceiling rose to
\* its cap of 50 at the second and stayed there at the third
C20_Witness ==
    /\ sw.maxRetries = 3 /\ Len(sw.used) = 3
    /\ sw.used[1].slippage < sw.used[2].slippage
    /\ sw.used[2].slippage < sw.used[3].slippage
    /\ sw.used[1].maxAccounts < sw.used[2].maxAccounts
    /\ sw.used[2].maxAccounts = sw.used[3].maxAccounts

(***************************************************************************)
(*                    Properties of the positions held                     *)
(***************************************************************************)
\* the additions of the cycle made to pool p
AdditionsTo(p) == {i \in 1..Len(cyc.added) : cyc.added[i].pairAddress = p}

\* C21: a wallet that holds at most one position per pool still does after a
\* rebalancing cycle: no pool has two additions in one cycle, and one
\* createPositionAndAddLiquidity call leaves at most one position behind.
C21_OnePositionPerPool ==
    /\ \A p \in Pools : wallet.held[p] <= 1
    /\ \A p \in Pools : Cardinality(AdditionsTo(p)) <= 1

(***************************************************************************)
(*                    Properties of the cycle's outcome                    *)
(***************************************************************************)
\* a phase that attempted at least one item and had none succeed
NoneSucceeded(results) ==
    Len(results) > 0 /\ \A i \in 1..Len(results) : ~results[i].ok

\* C22: a cycle whose remove phase or add phase attempted items and had none
\* of them succeed ends in the error outcome (and a cycle ends in the error
\* outcome only for that reason or for a failed precondition read).
C22_ErrorWhenPhaseFailed ==
    (cyc.pc = "done" /\ (NoneSucceeded(cyc.zapped) \/ NoneSucceeded(cyc.added)))
        => cyc.outcome = "error"

(***************************************************************************)
(*                    Properties of the remove phase                       *)
(***************************************************************************)
\* the calls of zapOutPosition the remove loop has made for the pool of its
\* i-th call
CallsForPoolOf(i) ==
    {j \in 1..Len(cyc.zapped) : cyc.zapped[j].pool = cyc.zapped[i].pool}

\* C23: a zap-out of the remove phase that failed is attempted again: once
\* the loop has left a pool behind as failed, zapOutPosition has been called
\* for that pool more than once.
C23_ZapOutRetried ==
    \A i \in 1..Len(cyc.zapped) :
        (~cyc.zapped[i].ok /\ (cyc.pc # "remove" \/ i < Len(cyc.zapped)))
            => Cardinality(CallsForPoolOf(i)) > 1

\* C24: a cycle creates new positions only after it has zapped out of every
\* pool the wallet held a position in when the cycle took its snapshot.
C24_ClearsAllBeforeAdding ==
    Len(cyc.added) > 0
        => \A p \in cyc.currentPool :
              \E i \in 1..Len(cyc.zapped) : cyc.zapped[i].pool = p

(***************************************************************************)
(*                    Properties of the attempts' inputs                   *)
(***************************************************************************)
\* what a submission of the operation is built from
TokensOf(op, s) ==
    IF op = "swap" THEN {s.quote, s.blockhash}
    ELSE {s.poolState, s.keypair, s.blockhash}

\* C25: every submission of swapTokens uses a quote, and a transaction with a
\* blockhash, obtained in its own attempt; every submission of
\* createPositionAndAddLiquidity uses pool state, a position keypair and a
\* blockhash obtained in its own attempt: each was obtained after the
\* previous failure, and no two submissions share one.
C25_FreshPerAttempt ==
    /\ \A i \in 1..Len(fresh.submissions) :
          /\ fresh.submissions[i].attempt >= i
          /\ \A t \in TokensOf(fresh.op, fresh.submissions[i]) :
                t > fresh.submissions[i].after
          /\ i > 1 => fresh.submissions[i].after > 0
    /\ \A i, j \in 1..Len(fresh.submissions) :
          i < j => /\ fresh.submissions[i].attempt < fresh.submissions[j].attempt
                   /\ TokensOf(fresh.op, fresh.submissions[i])
                        \cap TokensOf(fresh.op, fresh.submissions[j]) = {}

\* a position creation whose first two submissions failed and whose third
\* was made
C25_Witness ==
    /\ fresh.op = "lp" /\ Len(fresh.submissions) = 3
    /\ fresh.submissions[3].poolState > fresh.submissions[2].blockhash

(***************************************************************************)
(*                    Properties of the cycle's submissions                *)
(***************************************************************************)
\* C26: in one execution of the cycle at most one submission is in flight
\* at any time: a zap-out, a swap attempt or an add-liquidity attempt starts
\* only when no earlier submission is awaited, and an add-liquidity
\* submission is made only after the item's swap was confirmed.
C26_OneSubmissionInFlight ==
    /\ Cardinality(flight.inFlight) <= 1
    /\ flight.pc \in {"zapOut", "swap", "lp", "add"} => flight.inFlight = {}
    /\ flight.pc = "lpAwait" => flight.swapConfirmed

\* the add-liquidity submission of the second addition is in flight, after
\* five earlier submissions
C26_Witness ==
    /\ flight.pc = "lpAwait" /\ flight.addLeft = 1 /\ flight.submitted >= 6
    /\ flight.inFlight = {flight.submitted}

\* C27: in either phase, the next item does not start right after the end
\* of the one before it: a pacing delay lies between them, whether the
\* earlier item succeeded or failed.
C27_PacedItems ==
    \A i \in 1..(Len(flight.log) - 1) :
        (flight.log[i].e = "end" /\ flight.log[i + 1].phase = flight.log[i].phase)
            => flight.log[i + 1].e # "start"

(***************************************************************************)
(*                    Properties of the delay between attempts             *)
(***************************************************************************)
\* the delays a call has taken against the attempts it has run: one fewer
\* than the attempts, and as many as the attempts when the next attempt is
\* about to run
DelaysBetween(s) ==
    /\ s.pc = "attempt" => s.delays = Len(s.log)
    /\ s.pc \in {"delay", "returned"} => s.delays = Len(s.log) - 1
    /\ s.pc = "threw" =>
          s.delays = (IF Len(s.log) = 0 THEN 0 ELSE Len(s.log) - 1)

\* C28: between two consecutive attempts of swapTokens or of
\* createPositionAndAddLiquidity the 2-second delay is taken exactly once,
\* and none is taken after the last attempt: the function returns or throws
\* with one delay fewer than attempts.
C28_OneDelayBetweenAttempts == DelaysBetween(sw) /\ DelaysBetween(lp)

\* a swap that threw after three failed attempts and two delays
C28_Witness ==
    /\ sw.pc = "threw" /\ sw.maxRetries = 3
    /\ Len(sw.log) = 3 /\ sw.delays = 2

(***************************************************************************)
(*                    Properties of the balance read                       *)
(***************************************************************************)
\* the step in which the cycle reads the balance and plans the additions
ReadsBalance == cyc.pc = "balance" /\ cyc'.pc # "balance" /\ cyc'.outcome # "error"

\* the balance and the allocation the cycle works with change
PlanChanges ==
    \/ cyc'.solBalance # cyc.solBalance
    \/ cyc'.availableSol # cyc.availableSol
    \/ cyc'.solPerToken # cyc.solPerToken

\* C29: the balance the allocation is computed from is the wallet's balance
\* as read after the last zap-out of the remove phase and before the first
\* addition; no other step sets it.
C29_BalanceReadAfterRemovals ==
    /\ [][PlanChanges => ReadsBalance]_vars
    /\ [][ReadsBalance =>
            /\ Len(cyc.zapped) = Len(cyc.poolRemove) /\ Len(cyc.added) = 0
            /\ cyc'.solBalance = wallet.balance
            /\ Len(cyc'.tokensToAdd) > 0
                 => cyc'.availableSol = availableSolOf(wallet.balance)]_vars
    /\ [](Len(cyc.added) > 0 => cyc.availableSol = availableSolOf(cyc.solBalance))

\* additions planned from a balance that holds the proceeds of a zap-out
C29_Witness ==
    /\ cyc.pc = "add" /\ Len(cyc.zapped) > 0 /\ cyc.zapped[1].ok
    /\ cyc.solBalance = wallet.balance /\ cyc.solBalance > UnitsPerSol

(***************************************************************************)
(*                    Properties of the quotes' side effects               *)
(***************************************************************************)
\* C30: getQuotes followed by selectBestQuote writes nothing the manager
\* keeps: the SDK objects and the contents of the decimals cache of its
\* TokenUtils are after the two calls what they were before.
C30_QuotesWriteNothing ==
    [][(zap.pc = "quotes" /\ zap'.pc = "select") \/ zap.pc = "select"
          => /\ zap'.decimals = zap.decimals
             /\ zap'.poolType = zap.poolType
             /\ zap'.sdk = zap.sdk]_vars

(***************************************************************************)
(*                    Properties of the quotes' arrival                    *)
(***************************************************************************)
\* the venues whose answer is a usable quote
Offers == {v \in Venues : agg.responses[v].ok /\ agg.responses[v].amount > 0}

\* the venue the answers decide for: the larger amount, the native venue on
\* equal amounts
Decided ==
    IF "jupiter" \in Offers
       /\ ("native" \notin Offers
             \/ agg.responses["jupiter"].amount > agg.responses["native"].amount)
    THEN "jupiter" ELSE "native"

\* C31: the best quote is selected only when every venue asked has answered,
\* and the selected venue and amount are decided by the venues' answers
\* alone, whatever the order they arrived in.
C31_SelectsAfterAllVenues ==
    /\ agg.pc \in {"selected", "threw"} =>
          /\ agg.pending = {}
          /\ \A v \in Venues : (v = "jupiter" \/ agg.sdk) => agg.responses[v] # NotAsked
    /\ agg.pc = "threw" => Offers = {}
    /\ agg.pc = "selected" =>
          /\ Offers # {}
          /\ agg.best.amount = agg.responses[Decided].amount
          /\ agg.best.protocol = (IF Decided = "jupiter" THEN "jupiter" ELSE agg.poolType)

\* Jupiter answered first, the native venue second with the same amount, and
\* the native venue was selected
C31_Witness ==
    /\ agg.pc = "selected" /\ agg.arrived = <<"jupiter", "native">>
    /\ agg.responses["native"].amount = agg.responses["jupiter"].amount
    /\ agg.best.protocol = agg.poolType

(***************************************************************************)
(*                    Properties of the cycle summary                      *)
(***************************************************************************)
\* the additions of the cycle that succeeded
Succeeded == {i \in 1..Len(cyc.added) : cyc.added[i].ok}

\* C32: the summary after the add phase reports as created positions the
\* number of additions that succeeded, and as capital used that number times
\* the allocation per candidate.
C32_SummaryCountsSuccesses ==
    (cyc.pc = "done" /\ cyc.outcome = "completed" /\ Len(cyc.added) > 0)
        => /\ summaryOf(cyc).positions = Cardinality(Succeeded)
           /\ summaryOf(cyc).used = Cardinality(Succeeded) * cyc.solPerToken

(***************************************************************************)
(*   Properties of the zap-out, the early return, and the first attempt    *)
(***************************************************************************)
\* the errors of executeZapOut raised before sendAndConfirmTransaction
BeforeSending ==
    {"CpAmm not initialized", "DLMM not initialized", "rpc error",
     "No positions found for this user", NoValidQuotes, "build failed"}

\* C33: executeZapOut submits at most one transaction, which carries the
\* removal and the swap: the positions held change only in the step in which
\* that transaction takes effect, a transaction that takes effect changes
\* them, and nothing has been submitted when an earlier step failed.
C33_OneAtomicSubmission ==
    /\ [](zap.submitted <= 1 /\ zap.landed <= zap.submitted)
    /\ [](zap.pc = "threw" /\ zap.error \in BeforeSending => zap.submitted = 0)
    /\ [][zap.pc # "idle" /\ zap'.held # zap.held
            => zap.pc = "send" /\ zap'.landed = zap.landed + 1]_vars
    /\ [][zap.pc # "idle" /\ zap'.landed # zap.landed
            => zap'.held < zap.held /\ zap'.submitted = zap.submitted + 1]_vars

\* a zap-out of a pool with two positions that returned: one transaction,
\* which took effect
C33_Witness ==
    /\ zap.pc = "returned" /\ zap.poolType = "dammV2"
    /\ zap.submitted = 1 /\ zap.landed = 1 /\ zap.held = 1

\* C34: after a successful zap-out of a DAMM v2 pool the wallet holds no
\* position in that pool, however many it held before.
C34_DammV2LeavesNoPosition ==
    zap.pc = "returned" /\ zap.poolType = "dammV2" => zap.held = 0

\* C35: a cycle whose discovery yields no valid token ends there: it has
\* read no positions, listed nothing to remove or to add, zapped out of
\* nothing and added nothing, and the wallet is as it was.
C35_NoCandidateEndsCycle ==
    /\ [](cyc.pc \notin {"idle", "start"} /\ cyc.validTrending = <<>>
            => /\ cyc.pc = "done" /\ cyc.outcome = "no valid tokens"
               /\ cyc.currentPool = {} /\ cyc.poolRemove = <<>>
               /\ cyc.zapped = <<>> /\ cyc.tokensToAdd = <<>>
               /\ cyc.added = <<>> /\ cyc.total_position = 0)
    /\ [][cyc.pc = "start" /\ cyc'.validTrending = <<>>
            => wallet' = wallet /\ zap' = zap /\ lp' = lp]_vars
    /\ [][cyc.outcome = "no valid tokens" => wallet' = wallet]_vars

\* a cycle ended for want of a valid token in a wallet holding a position
C35_Witness ==
    /\ cyc.pc = "done" /\ cyc.outcome = "no valid tokens"
    /\ \E p \in Pools : wallet.held[p] > 0

\* C36: once the constructor has returned, executeZapOut never finds the
\* pool SDK missing: it raises no 'not initialized' error, for a DAMM v2
\* pool and for a DLMM pair alike.
C36_UsableAfterConstruction ==
    zap.pc = "threw"
        => zap.error \notin {"CpAmm not initialized", "DLMM not initialized"}

\* C37: executeZapOut on a pool in which the wallet holds no position throws
\* with no venue asked for a quote and nothing submitted; in the remove loop
\* such a zapOutPosition is a failed item that leaves the wallet as it was,
\* and the loop goes on to the next item.
C37_NoPositionFailsEarly ==
    /\ [](zap.pc \notin {"idle", "constructed"} /\ zap.held = 0 /\ zap.landed = 0
            => /\ zap.pc = "threw" /\ zap.submitted = 0
               /\ zap.responses = [native |-> NotAsked, jupiter |-> NotAsked]
               /\ zap.best.protocol = "")
    /\ [](zap.error = "No positions found for this user"
            => /\ zap.held = 0
               /\ \A w \in Wallets, p \in Pools, in \in ZapInputs :
                     w.held[p] = 0
                        => /\ zapOutPosition(w, p, in)
                                = [wallet |-> w, ok |-> FALSE, submitted |-> 0]
                           /\ loopNext(FALSE, 1, 2, "remove", "removed") = "remove")

\* executeZapOut has thrown for want of a position, the SDK being there
C37_Witness ==
    /\ zap.pc = "threw" /\ zap.error = "No positions found for this user"
    /\ zap.sdk /\ zap.held = 0 /\ zap.submitted = 0

\* the cycles the cron callback has started
CyclesStarted(execs) ==
    Len(SelectSeq(execs, LAMBDA e : e.kind = "executeAutomatedTrading"))

\* C38: the bot holds at most one scheduled job; /start_auto leaves it
\* running and /stop_auto leaves it stopped, neither touching the cycles in
\* progress, and no cycle starts while the job is stopped.
C38_OneJobStartedAndStopped ==
    /\ [](sched.jobs <= 1 /\ (sched.started => sched.jobs = 1))
    /\ [][startAutomation
            => sched'.started /\ sched'.jobs = 1 /\ sched'.execs = sched.execs]_vars
    /\ [][stopAutomation
            => /\ ~sched'.started /\ sched'.jobs = sched.jobs
               /\ sched'.execs = sched.execs]_vars
    /\ [][~sched.started
            => CyclesStarted(sched'.execs) = CyclesStarted(sched.execs)]_vars

\* the job stopped with a cycle it started still awaiting its transaction
C38_Witness ==
    /\ ~sched.started /\ sched.jobs = 1
    /\ \E i \in 1..Len(sched.execs) :
          /\ sched.execs[i].kind = "executeAutomatedTrading"
          /\ sched.execs[i].pc = "submitting"

\* C39: the first attempt of swapTokens asks for its quote with the
\* configured slippage and the configured maxAccounts, as the swapTokens
\* without retries does, and the first attempt of
\* createPositionAndAddLiquidity uses the whole amounts and the 5% buffer of
\* createPositionTransaction.
C39_FirstAttemptAsConfigured ==
    /\ Len(sw.used) >= 1 => sw.used[1] = swapTokensOnce(sw)
    /\ Len(lp.used) >= 1 => /\ lp.used[1].factor = 100
                            /\ lp.used[1].buffer = slippageBuffer * 100

(***************************************************************************)
(*                    Properties of the scheduler                          *)
(***************************************************************************)
Active(e) == e.pc # "done"

ActiveExecutions == {i \in 1..Len(sched.execs) : Active(sched.execs[i])}

\* C9: single flight per wallet: at no time are two executions that submit
\* transactions for the wallet (cycles started by the schedule, /clear_all
\* handlers) in progress together.
C9_SingleFlight ==
    Cardinality(ActiveExecutions) <= 1

==========================================================================
